---- MODULE Spec2Model ----
(***************************************************************************)
(* Inkwell: the REST backend (server/index.ts, the v0.2 server with locks, *)
(* comments, upload) and the client's debounced autosave (src/App.tsx).    *)
(* The database rows are the state; one action per route handler.          *)
(***************************************************************************)
EXTENDS Integers, Sequences, FiniteSets, TLC

(***************************************************************************)
(* Bounds of the model.                                                    *)
(***************************************************************************)
MaxNotes == 2          \* Note rows ever created (Spec)
MaxVersionRows == 2    \* NoteVersion rows at a time (Spec, SpecTrash, SpecGuard)
MaxRows == 1           \* rows ever created per table (SpecRestore, SpecGuard, SpecVersions)
MaxSnapshots == 52     \* NoteVersion rows ever created (SpecVersions)
MaxCalls == 3          \* calls of updateNote (SpecClient)
MaxTime == 1000        \* the clock stops there, in ms (SpecClient)
MaxInFlight == 2       \* handlers suspended at an await at a time (SpecRegister, SpecPrune)
MaxFolders == 2        \* Folder rows ever created (SpecFolders)
MaxFree == 3           \* elements of the document typed freely (SpecEditor)
MaxDoc == 22           \* elements of the document; past MaxFree only "x" is typed, at the end (SpecEditor)

(***************************************************************************)
(* Program constants.                                                      *)
(***************************************************************************)
JWT_SECRET == "inkwell-secret-key"
MinPasswordLen == 4
MaxVersions == 50
DebounceMs == 500
SlashWindow == 20

VARIABLES
  users,          \* User rows: id -> [username, password]
  notes,          \* Note rows: id -> [userId, title, content, pinned, folderId, tags, lockPassword, deletedAt]
  nextNoteId,     \* autoincrement of Note.id
  versions,       \* NoteVersion rows in creation order: <<[id, noteId, title, content]>>
  nextVersionId,  \* autoincrement of NoteVersion.id
  folders,        \* Folder rows: id -> [userId, name, color]
  tags,           \* Tag rows: id -> [userId, name, color]
  comments,       \* Comment rows: id -> [userId, noteId, content]
  files,          \* uploaded files: set of [userId, n]
  seq,            \* autoincrement of Folder.id, Tag.id, Comment.id
  req,            \* the request handled last
  resp,           \* the response to it
  hist,           \* history: what the notes were before the last edit and the last soft delete
  client,         \* the browser: clock, active note, pending timeouts, requests on their way
  pending         \* handlers suspended at an await: ticket -> [op, pc, ...]

db == <<users, notes, nextNoteId, versions, nextVersionId, folders, tags, comments, files, seq>>
vars == <<users, notes, nextNoteId, versions, nextVersionId, folders, tags, comments, files, seq, req, resp, hist, client, pending>>

(***************************************************************************)
(* Values.  null is 0 for ids and dates, <<>> for strings and hashes.      *)
(***************************************************************************)
UserIds == {1, 2}
NoteIds == 1..MaxNotes
Times == {1, 2}

\* bcrypt.hash / bcrypt.compare: the hash is not the password; compare
\* accepts exactly the password that was hashed.
bcryptHash(p) == <<"bcrypt", p>>
bcryptCompare(p, h) == h = bcryptHash(p)

\* String.length of a password (passwords are sequences of characters).
Pw4 == <<"p", "w", "0", "1">>
Pw4b == <<"p", "w", "0", "2">>
Pw3 == <<"a", "b", "c">>

\* String.prototype.trim on a sequence of characters.
RECURSIVE TrimLeft(_)
TrimLeft(s) == IF s # <<>> /\ Head(s) = " " THEN TrimLeft(Tail(s)) ELSE s
RECURSIVE TrimRight(_)
TrimRight(s) == IF s # <<>> /\ s[Len(s)] = " " THEN TrimRight(SubSeq(s, 1, Len(s) - 1)) ELSE s
trim(s) == TrimRight(TrimLeft(s))

(***************************************************************************)
(* Bearer-token authentication.  A token is what jwt.sign made of it:      *)
(* the payload, the secret it was signed with, and whether it has expired. *)
(* A header is <<>> (absent) or <<scheme, token>>.                         *)
(***************************************************************************)
jwtSign(u) == [userId |-> u, secret |-> JWT_SECRET, expired |-> FALSE]
jwtVerify(tok) == tok.secret = JWT_SECRET /\ ~tok.expired

authenticate_NoVerify(h) ==
  IF h = <<>> \/ h[1] # "Bearer" THEN [ok |-> FALSE, userId |-> 0, error |-> "not logged in"]
  ELSE [ok |-> TRUE, userId |-> h[2].userId, error |-> ""]

authenticate(h) ==
  IF h = <<>> \/ h[1] # "Bearer" THEN [ok |-> FALSE, userId |-> 0, error |-> "not logged in"]
  ELSE IF jwtVerify(h[2]) THEN [ok |-> TRUE, userId |-> h[2].userId, error |-> ""]
  ELSE [ok |-> FALSE, userId |-> 0, error |-> "login expired"]

Headers ==
  {<<>>, <<"Basic", jwtSign(1)>>,
   <<"Bearer", [userId |-> 1, secret |-> "guess", expired |-> FALSE]>>,
   <<"Bearer", [userId |-> 1, secret |-> JWT_SECRET, expired |-> TRUE]>>}
  \cup {<<"Bearer", jwtSign(u)>> : u \in UserIds}

(***************************************************************************)
(* Requests and responses.                                                 *)
(***************************************************************************)
\* op: the route; id: its :id parameter (0 when it has none); body: the JSON
\* body as far as the handler reads it (<<>> when it reads none)
Request(op, h, id, body) == [op |-> op, header |-> h, id |-> id, body |-> body]

\* res.status(s).json({ error })
ErrorJson(s, e) == [status |-> s, error |-> e, notes |-> {}, versions |-> <<>>, other |-> "error"]
\* res.json({ ok: true }), res.json(folder), ... : a body that holds no note
OkJson(what) == [status |-> 200, error |-> "", notes |-> {}, versions |-> <<>>, other |-> what]
\* res.json(note) / res.json(notes)
NotesJson(ns) == [status |-> 200, error |-> "", notes |-> ns, versions |-> <<>>, other |-> "notes"]
\* res.json(versions)
VersionsJson(vs) == [status |-> 200, error |-> "", notes |-> {}, versions |-> vs, other |-> "versions"]
\* a rejected promise in an async handler: no JSON answer of the handler
Thrown == [status |-> 500, error |-> "unhandled rejection", notes |-> {}, versions |-> <<>>, other |-> "error"]

\* A Prisma Note row n with id as JSON (include: { tags: true }).
RawNote(id, n) ==
  [id |-> id, userId |-> n.userId, title |-> n.title, content |-> n.content,
   pinned |-> n.pinned, folderId |-> n.folderId, tags |-> n.tags,
   deletedAt |-> n.deletedAt, lockPassword |-> n.lockPassword, locked |-> "absent"]

Bool(b) == IF b THEN "true" ELSE "false"
Undefined == <<"undefined">>

\* An optional field of a request body: <<>> is undefined, <<v>> carries v.
None == <<>>
Some(v) == <<v>>
Present(o) == o # <<>>
Val(o) == o[1]

Titles == {"", "T"}
Contents == {"", "C"}

\* { ...n, locked: !!n.lockPassword, content: n.lockPassword ? '' : n.content, lockPassword: undefined }
Sanitized(id, n) ==
  [RawNote(id, n) EXCEPT !.locked = Bool(n.lockPassword # <<>>),
                         !.content = IF n.lockPassword # <<>> THEN "" ELSE n.content,
                         !.lockPassword = Undefined]

\* { ...updated, locked: !!updated.lockPassword, lockPassword: undefined }
PatchView(id, n) ==
  [RawNote(id, n) EXCEPT !.locked = Bool(n.lockPassword # <<>>), !.lockPassword = Undefined]

UnlockView_Blank(id, n) == Sanitized(id, n)

\* { ...fullNote, locked: true, lockPassword: undefined }
UnlockView(id, n) ==
  [RawNote(id, n) EXCEPT !.locked = "true", !.lockPassword = Undefined]

findFirst_AnyOwner(id, u) == id \in DOMAIN notes

\* prisma.note.findFirst({ where: { id, userId } })
findFirst(id, u) == id \in DOMAIN notes /\ notes[id].userId = u

\* prisma.note.findMany({ where: { userId, deletedAt: null } })
ListIds(u) == {i \in DOMAIN notes : notes[i].userId = u /\ notes[i].deletedAt = 0}
TrashIds_All(u) == {i \in DOMAIN notes : notes[i].userId = u}

\* prisma.note.findMany({ where: { userId, deletedAt: { not: null } } })
TrashIds(u) == {i \in DOMAIN notes : notes[i].userId = u /\ notes[i].deletedAt # 0}

\* Rows of a table (a function id -> row) without the ids in S.
Without_Nothing(f, S) == f

Without(f, S) == [i \in DOMAIN f \ S |-> f[i]]

\* NoteVersion rows of a note, oldest first (orderBy createdAt asc).
VersionsOf(vs, id) == SelectSeq(vs, LAMBDA v : v.noteId = id)
Reverse(s) == [i \in 1..Len(s) |-> s[Len(s) + 1 - i]]
Take(s, k) == SubSeq(s, 1, IF k < Len(s) THEN k ELSE Len(s))

Init ==
  /\ users = (1 :> [username |-> "alice", password |-> bcryptHash(Pw4)])
             @@ (2 :> [username |-> "bob", password |-> bcryptHash(Pw4b)])
  /\ notes = <<>>
  /\ nextNoteId = 1
  /\ versions = <<>>
  /\ nextVersionId = 1
  /\ folders = <<>>
  /\ tags = <<>>
  /\ comments = <<>>
  /\ files = {}
  /\ seq = [folder |-> 1, tag |-> 1, comment |-> 1]
  /\ req = Request("none", <<>>, 0, <<>>)
  /\ resp = OkJson("none")
  /\ hist = [before |-> <<>>, trail |-> <<>>]
  /\ client = [now |-> 0, activeId |-> 0, local |-> <<>>, timers |-> {}, saveTimer |-> 0,
               calls |-> <<>>, sent |-> <<>>, inflight |-> {},
               toggles |-> <<>>, tagReqs |-> {}, tagResps |-> {}]
  /\ pending = <<>>


(***************************************************************************)
(* Notes.                                                                  *)
(***************************************************************************)
\* app.get('/api/notes')
GetNotes(h) ==
  LET a == authenticate(h) IN
  /\ req' = Request("GET /api/notes", h, 0, <<>>)
  /\ resp' = IF ~a.ok THEN ErrorJson(401, a.error)
             ELSE NotesJson({Sanitized(i, notes[i]) : i \in ListIds(a.userId)})
  /\ UNCHANGED db

\* app.get('/api/notes/trash')
GetTrash(h) ==
  LET a == authenticate(h) IN
  /\ req' = Request("GET /api/notes/trash", h, 0, <<>>)
  /\ resp' = IF ~a.ok THEN ErrorJson(401, a.error)
             ELSE NotesJson({RawNote(i, notes[i]) : i \in TrashIds(a.userId)})
  /\ UNCHANGED db

\* app.get('/api/notes/random'), mode random: one of the user's notes, picked
\* by Math.random.
GetRandom(h) ==
  LET a == authenticate(h) IN
  /\ req' = Request("GET /api/notes/random", h, 0, <<>>)
  /\ IF ~a.ok THEN resp' = ErrorJson(401, a.error)
     ELSE IF ListIds(a.userId) = {} THEN resp' = OkJson("null")
     ELSE \E i \in ListIds(a.userId) : resp' = NotesJson({Sanitized(i, notes[i])})
  /\ UNCHANGED db

\* app.get('/api/notes/random'), mode thisday: the notes created on this day
\* of an earlier year; the dates are the environment's, so any subset.
GetThisDay(h) ==
  LET a == authenticate(h) IN
  /\ req' = Request("GET /api/notes/random?mode=thisday", h, 0, <<>>)
  /\ IF ~a.ok THEN resp' = ErrorJson(401, a.error)
     ELSE \E S \in SUBSET ListIds(a.userId) :
            resp' = NotesJson({[Sanitized(i, notes[i]) EXCEPT !.tags = {}, !.userId = 0,
                                                              !.deletedAt = 0] : i \in S})
  /\ UNCHANGED db

\* app.get('/api/notes/stats')
GetStats(h) ==
  LET a == authenticate(h) IN
  /\ req' = Request("GET /api/notes/stats", h, 0, <<>>)
  /\ resp' = IF ~a.ok THEN ErrorJson(401, a.error) ELSE OkJson("stats")
  /\ UNCHANGED db

\* app.post('/api/notes'); title and content default to '', folderId || null.
\* A folderId that names no Folder row violates the foreign key.
CreateNote(h, title, content, folderId) ==
  LET a == authenticate(h)
      row == [userId |-> a.userId, title |-> title, content |-> content,
              pinned |-> FALSE, folderId |-> folderId, tags |-> {},
              lockPassword |-> <<>>, deletedAt |-> 0]
  IN
  /\ req' = Request("POST /api/notes", h, 0, <<>>)
  /\ IF ~a.ok THEN resp' = ErrorJson(401, a.error) /\ UNCHANGED db
     ELSE IF folderId # 0 /\ folderId \notin DOMAIN folders
       THEN resp' = Thrown /\ UNCHANGED db
     ELSE /\ notes' = notes @@ (nextNoteId :> row)
          /\ nextNoteId' = nextNoteId + 1
          /\ resp' = NotesJson({RawNote(nextNoteId, row)})
          /\ UNCHANGED <<users, versions, nextVersionId, folders, tags, comments, files, seq>>

\* A PATCH body: every key optional.
PatchBody(title, content, pinned, folderId, unlockPassword) ==
  [title |-> title, content |-> content, pinned |-> pinned, folderId |-> folderId,
   unlockPassword |-> unlockPassword]

ApplyData_NoWhitelist(n, body) ==
  [k \in DOMAIN n |->
     IF k \in {"title", "content", "pinned", "folderId"}
       THEN (IF Present(body[k]) THEN Val(body[k]) ELSE n[k])
       ELSE (IF k \in DOMAIN body THEN body[k] ELSE n[k])]

\* The field whitelist: data[key] = req.body[key] for the allowed keys that
\* are not undefined, applied to the row n.
ApplyData(n, body) ==
  [n EXCEPT !.title = IF Present(body.title) THEN Val(body.title) ELSE @,
            !.content = IF Present(body.content) THEN Val(body.content) ELSE @,
            !.pinned = IF Present(body.pinned) THEN Val(body.pinned) ELSE @,
            !.folderId = IF Present(body.folderId) THEN Val(body.folderId) ELSE @]

SnapshotSource_Updated(note, updated) == updated

\* data: { noteId: id, title: note.title, content: note.content }: the snapshot
\* stores the note as findFirst read it, not as the update leaves it.
SnapshotSource(note, updated) == note

SnapshotAndPrune_NoPrune(vs, vid, id, n) ==
  Append(vs, [id |-> vid, noteId |-> id, title |-> n.title, content |-> n.content])

\* noteVersion.create of the row n as it is, then the limit of MaxVersions
\* versions per note: count, find the (count - MaxVersions) oldest, delete them.
SnapshotAndPrune(vs, vid, id, n) ==
  LET created == Append(vs, [id |-> vid, noteId |-> id, title |-> n.title, content |-> n.content])
      versionCount == Len(VersionsOf(created, id))
      oldest == Take(VersionsOf(created, id), versionCount - MaxVersions)
      oldestIds == {oldest[k].id : k \in 1..Len(oldest)}
  IN IF versionCount > MaxVersions
       THEN SelectSeq(created, LAMBDA v : v.id \notin oldestIds)
       ELSE created

\* The lock check of PATCH: a 403 only when the note is locked and the body
\* carries an unlockPassword that does not match.
PatchRefused(n, body) ==
  /\ n.lockPassword # <<>>
  /\ Present(body.unlockPassword)
  /\ ~bcryptCompare(Val(body.unlockPassword), n.lockPassword)

\* app.patch('/api/notes/:id')
PatchNote(h, id, body) ==
  LET a == authenticate(h)
      snapshot == Present(body.content) \/ Present(body.title)
      updated == ApplyData(notes[id], body)
      vs == IF snapshot
              THEN SnapshotAndPrune(versions, nextVersionId, id, SnapshotSource(notes[id], updated))
              ELSE versions
  IN
  /\ req' = Request("PATCH /api/notes/:id", h, id, body)
  /\ IF ~a.ok THEN resp' = ErrorJson(401, a.error) /\ UNCHANGED db
     ELSE IF ~findFirst(id, a.userId)
       THEN resp' = ErrorJson(404, "note not found") /\ UNCHANGED db
     ELSE IF PatchRefused(notes[id], body)
       THEN resp' = ErrorJson(403, "wrong password") /\ UNCHANGED db
     ELSE /\ versions' = vs
          /\ nextVersionId' = IF snapshot THEN nextVersionId + 1 ELSE nextVersionId
          /\ IF updated.folderId # 0 /\ updated.folderId \notin DOMAIN folders
               \* note.update violates the foreign key: the snapshot stays
               THEN resp' = Thrown /\ UNCHANGED notes
               ELSE /\ notes' = [notes EXCEPT ![id] = updated]
                    /\ resp' = NotesJson({PatchView(id, updated)})
          /\ UNCHANGED <<users, nextNoteId, folders, tags, comments, files, seq>>

\* app.put('/api/notes/:id/tags'): note.update({ where: { id } }) with no
\* owner check; a missing note or a tag id that names no Tag row rejects.
SetTags(h, id, tagIds) ==
  LET a == authenticate(h) IN
  /\ req' = Request("PUT /api/notes/:id/tags", h, id, [tagIds |-> tagIds])
  /\ IF ~a.ok THEN resp' = ErrorJson(401, a.error) /\ UNCHANGED db
     ELSE IF id \notin DOMAIN notes \/ ~(tagIds \subseteq DOMAIN tags)
       THEN resp' = Thrown /\ UNCHANGED db
     ELSE /\ notes' = [notes EXCEPT ![id].tags = tagIds]
          /\ resp' = NotesJson({RawNote(id, notes'[id])})
          /\ UNCHANGED <<users, nextNoteId, versions, nextVersionId, folders, tags, comments, files, seq>>

(***************************************************************************)
(* Locks.                                                                  *)
(***************************************************************************)
\* app.post('/api/notes/:id/lock'); password is <<>> when the body has none
LockNote(h, id, password) ==
  LET a == authenticate(h) IN
  /\ req' = Request("POST /api/notes/:id/lock", h, id, [password |-> password])
  /\ IF ~a.ok THEN resp' = ErrorJson(401, a.error) /\ UNCHANGED db
     ELSE IF ~findFirst(id, a.userId)
       THEN resp' = ErrorJson(404, "note not found") /\ UNCHANGED db
     ELSE IF password = <<>> \/ Len(password) < MinPasswordLen
       THEN resp' = ErrorJson(400, "password needs 4 characters") /\ UNCHANGED db
     ELSE /\ notes' = [notes EXCEPT ![id].lockPassword = bcryptHash(password)]
          /\ resp' = OkJson("ok")
          /\ UNCHANGED <<users, nextNoteId, versions, nextVersionId, folders, tags, comments, files, seq>>

\* app.post('/api/notes/:id/unlock'); password is <<>> when the body has none
UnlockNote(h, id, password) ==
  LET a == authenticate(h) IN
  /\ req' = Request("POST /api/notes/:id/unlock", h, id, [password |-> password])
  /\ resp' = IF ~a.ok THEN ErrorJson(401, a.error)
             ELSE IF ~findFirst(id, a.userId) THEN ErrorJson(404, "note not found")
             ELSE IF notes[id].lockPassword = <<>> THEN ErrorJson(400, "note is not locked")
             \* bcrypt.compare(undefined, hash) rejects
             ELSE IF password = <<>> THEN Thrown
             ELSE IF ~bcryptCompare(password, notes[id].lockPassword)
               THEN ErrorJson(403, "wrong password")
             ELSE NotesJson({UnlockView(id, notes[id])})
  /\ UNCHANGED db

RemoveLock_AnyPassword(h, id, password) ==
  LET a == authenticate(h) IN
  /\ req' = Request("POST /api/notes/:id/remove-lock", h, id, [password |-> password])
  /\ IF ~a.ok THEN resp' = ErrorJson(401, a.error) /\ UNCHANGED db
     ELSE IF ~findFirst(id, a.userId)
       THEN resp' = ErrorJson(404, "note not found") /\ UNCHANGED db
     ELSE IF notes[id].lockPassword = <<>>
       THEN resp' = ErrorJson(400, "note is not locked") /\ UNCHANGED db
     ELSE /\ notes' = [notes EXCEPT ![id].lockPassword = <<>>]
          /\ resp' = OkJson("ok")
          /\ UNCHANGED <<users, nextNoteId, versions, nextVersionId, folders, tags, comments, files, seq>>

\* app.post('/api/notes/:id/remove-lock')
RemoveLock(h, id, password) ==
  LET a == authenticate(h) IN
  /\ req' = Request("POST /api/notes/:id/remove-lock", h, id, [password |-> password])
  /\ IF ~a.ok THEN resp' = ErrorJson(401, a.error) /\ UNCHANGED db
     ELSE IF ~findFirst(id, a.userId)
       THEN resp' = ErrorJson(404, "note not found") /\ UNCHANGED db
     ELSE IF notes[id].lockPassword = <<>>
       THEN resp' = ErrorJson(400, "note is not locked") /\ UNCHANGED db
     ELSE IF password = <<>>
       \* bcrypt.compare(undefined, hash) rejects
       THEN resp' = Thrown /\ UNCHANGED db
     ELSE IF ~bcryptCompare(password, notes[id].lockPassword)
       THEN resp' = ErrorJson(403, "wrong password") /\ UNCHANGED db
     ELSE /\ notes' = [notes EXCEPT ![id].lockPassword = <<>>]
          /\ resp' = OkJson("ok")
          /\ UNCHANGED <<users, nextNoteId, versions, nextVersionId, folders, tags, comments, files, seq>>

(***************************************************************************)
(* Trash.                                                                  *)
(***************************************************************************)
SoftDelete_ClearsLock(h, id, t) ==
  LET a == authenticate(h) IN
  /\ req' = Request("DELETE /api/notes/:id", h, id, <<>>)
  /\ IF ~a.ok THEN resp' = ErrorJson(401, a.error) /\ UNCHANGED db
     ELSE IF id \notin DOMAIN notes THEN resp' = Thrown /\ UNCHANGED db
     ELSE /\ notes' = [notes EXCEPT ![id].deletedAt = t, ![id].lockPassword = <<>>]
          /\ resp' = OkJson("ok")
          /\ UNCHANGED <<users, nextNoteId, versions, nextVersionId, folders, tags, comments, files, seq>>

\* app.delete('/api/notes/:id'): note.update({ where: { id } }) with no
\* owner check; a missing note rejects.  t is new Date().
SoftDelete(h, id, t) ==
  LET a == authenticate(h) IN
  /\ req' = Request("DELETE /api/notes/:id", h, id, <<>>)
  /\ IF ~a.ok THEN resp' = ErrorJson(401, a.error) /\ UNCHANGED db
     ELSE IF id \notin DOMAIN notes THEN resp' = Thrown /\ UNCHANGED db
     ELSE /\ notes' = [notes EXCEPT ![id].deletedAt = t]
          /\ resp' = OkJson("ok")
          /\ UNCHANGED <<users, nextNoteId, versions, nextVersionId, folders, tags, comments, files, seq>>

\* app.post('/api/notes/:id/restore')
RestoreNote(h, id) ==
  LET a == authenticate(h) IN
  /\ req' = Request("POST /api/notes/:id/restore", h, id, <<>>)
  /\ IF ~a.ok THEN resp' = ErrorJson(401, a.error) /\ UNCHANGED db
     ELSE IF ~findFirst(id, a.userId)
       THEN resp' = ErrorJson(404, "note not found") /\ UNCHANGED db
     ELSE /\ notes' = [notes EXCEPT ![id].deletedAt = 0]
          /\ resp' = NotesJson({RawNote(id, notes'[id])})
          /\ UNCHANGED <<users, nextNoteId, versions, nextVersionId, folders, tags, comments, files, seq>>

\* app.delete('/api/notes/:id/permanent').  The schema is not part of the
\* sources: with onDelete: Cascade the note's versions and comments go with
\* it; without, note.delete rejects while the note has any (cascade is the
\* schema's choice).
PermanentDelete(h, id, cascade) ==
  LET a == authenticate(h)
      hasRows == \/ VersionsOf(versions, id) # <<>>
                 \/ \E c \in DOMAIN comments : comments[c].noteId = id
  IN
  /\ req' = Request("DELETE /api/notes/:id/permanent", h, id, <<>>)
  /\ IF ~a.ok THEN resp' = ErrorJson(401, a.error) /\ UNCHANGED db
     ELSE IF ~findFirst(id, a.userId)
       THEN resp' = ErrorJson(404, "note not found") /\ UNCHANGED db
     ELSE IF ~cascade /\ hasRows THEN resp' = Thrown /\ UNCHANGED db
     ELSE /\ notes' = Without(notes, {id})
          /\ versions' = SelectSeq(versions, LAMBDA v : v.noteId # id)
          /\ comments' = Without(comments, {c \in DOMAIN comments : comments[c].noteId = id})
          /\ resp' = OkJson("ok")
          /\ UNCHANGED <<users, nextNoteId, nextVersionId, folders, tags, files, seq>>

\* app.get('/api/notes/:id/versions'): newest first, at most MaxVersions
GetVersions(h, id) ==
  LET a == authenticate(h) IN
  /\ req' = Request("GET /api/notes/:id/versions", h, id, <<>>)
  /\ resp' = IF ~a.ok THEN ErrorJson(401, a.error)
             ELSE IF ~findFirst(id, a.userId) THEN ErrorJson(404, "note not found")
             ELSE VersionsJson(Take(Reverse(VersionsOf(versions, id)), MaxVersions))
  /\ UNCHANGED db

(***************************************************************************)
(* Comments.                                                               *)
(***************************************************************************)
\* app.get('/api/notes/:id/comments')
GetComments(h, id) ==
  LET a == authenticate(h) IN
  /\ req' = Request("GET /api/notes/:id/comments", h, id, <<>>)
  /\ resp' = IF ~a.ok THEN ErrorJson(401, a.error)
             ELSE IF ~findFirst(id, a.userId) THEN ErrorJson(404, "note not found")
             ELSE OkJson("comments")
  /\ UNCHANGED db

\* app.post('/api/notes/:id/comments'); content is <<>> when the body has none
PostComment(h, id, content) ==
  LET a == authenticate(h) IN
  /\ req' = Request("POST /api/notes/:id/comments", h, id, <<>>)
  /\ IF ~a.ok THEN resp' = ErrorJson(401, a.error) /\ UNCHANGED db
     ELSE IF ~findFirst(id, a.userId)
       THEN resp' = ErrorJson(404, "note not found") /\ UNCHANGED db
     ELSE IF trim(content) = <<>>
       THEN resp' = ErrorJson(400, "comment is empty") /\ UNCHANGED db
     ELSE /\ comments' = comments @@
              (seq.comment :> [userId |-> a.userId, noteId |-> id, content |-> trim(content)])
          /\ seq' = [seq EXCEPT !.comment = @ + 1]
          /\ resp' = OkJson("comment")
          /\ UNCHANGED <<users, notes, nextNoteId, versions, nextVersionId, folders, tags, files>>

\* app.delete('/api/comments/:id')
DeleteComment(h, id) ==
  LET a == authenticate(h) IN
  /\ req' = Request("DELETE /api/comments/:id", h, id, <<>>)
  /\ IF ~a.ok THEN resp' = ErrorJson(401, a.error) /\ UNCHANGED db
     ELSE IF ~(id \in DOMAIN comments /\ comments[id].userId = a.userId)
       THEN resp' = ErrorJson(404, "comment not found") /\ UNCHANGED db
     ELSE /\ comments' = Without(comments, {id})
          /\ resp' = OkJson("ok")
          /\ UNCHANGED <<users, notes, nextNoteId, versions, nextVersionId, folders, tags, files, seq>>

(***************************************************************************)
(* Folders and tags.  Names are sequences of characters.                   *)
(***************************************************************************)
\* app.get('/api/folders')
GetFolders(h) ==
  LET a == authenticate(h) IN
  /\ req' = Request("GET /api/folders", h, 0, <<>>)
  /\ resp' = IF ~a.ok THEN ErrorJson(401, a.error) ELSE OkJson("folders")
  /\ UNCHANGED db

\* app.post('/api/folders'); name is <<>> when the body has none
PostFolder(h, name) ==
  LET a == authenticate(h) IN
  /\ req' = Request("POST /api/folders", h, 0, <<>>)
  /\ IF ~a.ok THEN resp' = ErrorJson(401, a.error) /\ UNCHANGED db
     ELSE IF trim(name) = <<>>
       THEN resp' = ErrorJson(400, "folder name is empty") /\ UNCHANGED db
     ELSE /\ folders' = folders @@ (seq.folder :> [userId |-> a.userId, name |-> trim(name)])
          /\ seq' = [seq EXCEPT !.folder = @ + 1]
          /\ resp' = OkJson("folder")
          /\ UNCHANGED <<users, notes, nextNoteId, versions, nextVersionId, tags, comments, files>>

DeleteFolder_WithNotes(h, id, setNull) ==
  LET a == authenticate(h) IN
  /\ req' = Request("DELETE /api/folders/:id", h, id, <<>>)
  /\ IF ~a.ok THEN resp' = ErrorJson(401, a.error) /\ UNCHANGED db
     ELSE IF id \notin DOMAIN folders THEN resp' = Thrown /\ UNCHANGED db
     ELSE /\ notes' = Without(notes, {i \in DOMAIN notes : notes[i].folderId = id})
          /\ folders' = Without(folders, {id})
          /\ resp' = OkJson("ok")
          /\ UNCHANGED <<users, nextNoteId, versions, nextVersionId, tags, comments, files, seq>>

\* app.delete('/api/folders/:id'): the caller's notes leave the folder, then
\* folder.delete({ where: { id } }) with no owner check.  A missing folder
\* rejects.  Notes of other users that still refer to the folder: the
\* optional relation sets their folderId to null (setNull), or, with
\* onDelete: Restrict in the schema, the delete rejects after the updateMany.
DeleteFolder(h, id, setNull) ==
  LET a == authenticate(h)
      cleared == [i \in DOMAIN notes |->
                    IF notes[i].folderId = id /\ notes[i].userId = a.userId
                      THEN [notes[i] EXCEPT !.folderId = 0] ELSE notes[i]]
      others == {i \in DOMAIN notes : cleared[i].folderId = id}
  IN
  /\ req' = Request("DELETE /api/folders/:id", h, id, <<>>)
  /\ IF ~a.ok THEN resp' = ErrorJson(401, a.error) /\ UNCHANGED db
     ELSE IF id \notin DOMAIN folders THEN resp' = Thrown /\ UNCHANGED db
     ELSE IF others # {} /\ ~setNull
       THEN /\ notes' = cleared
            /\ resp' = Thrown
            /\ UNCHANGED <<users, nextNoteId, versions, nextVersionId, folders, tags, comments, files, seq>>
     ELSE /\ notes' = [i \in DOMAIN notes |-> [cleared[i] EXCEPT !.folderId = IF @ = id THEN 0 ELSE @]]
          /\ folders' = Without(folders, {id})
          /\ resp' = OkJson("ok")
          /\ UNCHANGED <<users, nextNoteId, versions, nextVersionId, tags, comments, files, seq>>

\* app.get('/api/tags')
GetTags(h) ==
  LET a == authenticate(h) IN
  /\ req' = Request("GET /api/tags", h, 0, <<>>)
  /\ resp' = IF ~a.ok THEN ErrorJson(401, a.error) ELSE OkJson("tags")
  /\ UNCHANGED db

\* app.post('/api/tags')
PostTag(h, name) ==
  LET a == authenticate(h) IN
  /\ req' = Request("POST /api/tags", h, 0, <<>>)
  /\ IF ~a.ok THEN resp' = ErrorJson(401, a.error) /\ UNCHANGED db
     ELSE IF trim(name) = <<>>
       THEN resp' = ErrorJson(400, "tag name is empty") /\ UNCHANGED db
     ELSE /\ tags' = tags @@ (seq.tag :> [userId |-> a.userId, name |-> trim(name)])
          /\ seq' = [seq EXCEPT !.tag = @ + 1]
          /\ resp' = OkJson("tag")
          /\ UNCHANGED <<users, notes, nextNoteId, versions, nextVersionId, folders, comments, files>>

\* app.delete('/api/tags/:id'): tag.delete({ where: { id } }) with no owner
\* check; the implicit many-to-many relation drops the tag from every note.
DeleteTag(h, id) ==
  LET a == authenticate(h) IN
  /\ req' = Request("DELETE /api/tags/:id", h, id, <<>>)
  /\ IF ~a.ok THEN resp' = ErrorJson(401, a.error) /\ UNCHANGED db
     ELSE IF id \notin DOMAIN tags THEN resp' = Thrown /\ UNCHANGED db
     ELSE /\ tags' = Without(tags, {id})
          /\ notes' = [i \in DOMAIN notes |-> [notes[i] EXCEPT !.tags = @ \ {id}]]
          /\ resp' = OkJson("ok")
          /\ UNCHANGED <<users, nextNoteId, versions, nextVersionId, folders, comments, files, seq>>

(***************************************************************************)
(* Upload.                                                                 *)
(***************************************************************************)
\* fileFilter: /^(image|video)\// on the mimetype
allowed(mimetype) == mimetype \in {"image/png", "video/mp4"}

\* app.post('/api/upload', authenticate, upload.single('file'), ...): multer
\* runs after authenticate and stores the file it accepts; mimetype is "" when
\* the form has no file.
Upload(h, mimetype) ==
  LET a == authenticate(h) IN
  /\ req' = Request("POST /api/upload", h, 0, <<>>)
  /\ IF ~a.ok THEN resp' = ErrorJson(401, a.error) /\ UNCHANGED db
     ELSE IF mimetype = "" \/ ~allowed(mimetype)
       THEN resp' = ErrorJson(400, "no file") /\ UNCHANGED db
     ELSE /\ files' = files \cup {[userId |-> a.userId, n |-> Cardinality(files) + 1]}
          /\ resp' = OkJson("url")
          /\ UNCHANGED <<users, notes, nextNoteId, versions, nextVersionId, folders, tags, comments, seq>>

\* app.use('/api/files', express.static(...)): registered without
\* authenticate; serves the file or falls through to a 404.
GetFile(h, f) ==
  /\ req' = Request("GET /api/files", h, 0, <<>>)
  /\ resp' = IF f \in files THEN OkJson("file") ELSE ErrorJson(404, "")
  /\ UNCHANGED db

(***************************************************************************)
(* History of the last step, read off the request, the response and the    *)
(* rows as they were before it: hist.before[id] is the title and content   *)
(* of note id before its latest answered title/content PATCH; hist.trail   *)
(* is the note and its versions before a soft delete by its owner, kept    *)
(* (stage 1) while that delete is the last request and (stage 2) while the *)
(* restore of the same note that followed it is.                           *)
(***************************************************************************)
IsEdit(r) ==
  r.op = "PATCH /api/notes/:id" /\ (Present(r.body.title) \/ Present(r.body.content))

Caller(r) == authenticate(r.header).userId

History ==
  hist' =
    [before |->
       LET kept == [i \in DOMAIN hist.before \cap DOMAIN notes' |-> hist.before[i]]
       IN IF IsEdit(req') /\ resp'.status = 200
            THEN (req'.id :> [title |-> notes[req'.id].title, content |-> notes[req'.id].content]) @@ kept
            ELSE kept,
     trail |->
       IF /\ req'.op = "DELETE /api/notes/:id" /\ resp'.status = 200
          /\ notes[req'.id].userId = Caller(req')
         THEN [id |-> req'.id, stage |-> 1, row |-> notes[req'.id],
               versions |-> VersionsOf(versions, req'.id)]
       ELSE IF /\ req'.op = "POST /api/notes/:id/restore" /\ resp'.status = 200
               /\ hist.trail # <<>> /\ hist.trail.stage = 1 /\ hist.trail.id = req'.id
         THEN [hist.trail EXCEPT !.stage = 2]
       ELSE <<>>]

\* One request handled, with its history; the browser is not involved.
Step(Handler) == Handler /\ History /\ UNCHANGED <<client, pending>>

(***************************************************************************)
(* Inputs.                                                                 *)
(***************************************************************************)
ValidHeaders == {<<"Bearer", jwtSign(u)>> : u \in UserIds}
LockPasswords == {<<>>, Pw3, Pw4}
UnlockPasswords == {Pw4, Pw4b}
Names == {<<>>, <<" ">>, <<" ", "W">>}
Mimetypes == {"", "image/png", "text/html"}

\* PATCH bodies of the editor: a title or a content, with or without an
\* unlockPassword.
EditBodies ==
  {PatchBody(Some(t), None, None, None, None) : t \in Titles}
  \cup {PatchBody(None, Some(c), None, None, pw) : c \in Contents, pw \in {None, Some(Pw4), Some(Pw4b)}}

(***************************************************************************)
(* Spec: editing.  Users 1 and 2 are logged in and create, edit, lock and  *)
(* read notes in any order, each request handled in one step.              *)
(***************************************************************************)
Next ==
  \/ \E h \in ValidHeaders : Step(GetNotes(h))
  \/ \E h \in ValidHeaders, c \in Contents :
       nextNoteId <= MaxNotes /\ Step(CreateNote(h, "", c, 0))
  \/ \E h \in ValidHeaders, id \in NoteIds, body \in EditBodies :
       Len(versions) < MaxVersionRows /\ Step(PatchNote(h, id, body))
  \/ \E h \in ValidHeaders, id \in NoteIds, pw \in LockPasswords : Step(LockNote(h, id, pw))
  \/ \E h \in ValidHeaders, id \in NoteIds : Step(GetVersions(h, id))

Spec == Init /\ [][Next]_vars

(***************************************************************************)
(* SpecTrash: the trash.  Notes are created, locked, soft-deleted,         *)
(* restored, deleted for good and listed.                                  *)
(***************************************************************************)
NextTrash ==
  \/ \E h \in ValidHeaders : Step(GetNotes(h))
  \/ \E h \in ValidHeaders : Step(GetTrash(h))
  \/ \E h \in ValidHeaders, c \in Contents :
       nextNoteId <= MaxNotes /\ Step(CreateNote(h, "", c, 0))
  \/ \E h \in ValidHeaders, id \in NoteIds : Step(LockNote(h, id, Pw4))
  \/ \E h \in ValidHeaders, id \in NoteIds, pw \in UnlockPasswords : Step(UnlockNote(h, id, pw))
  \/ \E h \in ValidHeaders, id \in NoteIds, t \in Times : Step(SoftDelete(h, id, t))
  \/ \E h \in ValidHeaders, id \in NoteIds : Step(RestoreNote(h, id))
  \/ \E h \in ValidHeaders, id \in NoteIds, cascade \in BOOLEAN :
       Step(PermanentDelete(h, id, cascade))

SpecTrash == Init /\ [][NextTrash]_vars

(***************************************************************************)
(* SpecRestore: one note with everything a note can carry (a folder, a     *)
(* tag, a pin, a lock, versions), soft-deleted and restored.               *)
(***************************************************************************)
OrganizeBodies ==
  {PatchBody(Some("T"), None, None, None, None), PatchBody(None, None, Some(TRUE), None, None)}
  \cup {PatchBody(None, None, None, Some(f), None) : f \in 0..MaxRows}

NextRestore ==
  \/ \E h \in ValidHeaders : Step(GetNotes(h))
  \/ \E h \in ValidHeaders : seq.folder <= MaxRows /\ Step(PostFolder(h, <<" ", "W">>))
  \/ \E h \in ValidHeaders : seq.tag <= MaxRows /\ Step(PostTag(h, <<" ", "W">>))
  \/ \E h \in ValidHeaders, f \in 0..MaxRows :
       nextNoteId <= MaxRows /\ Step(CreateNote(h, "", "C", f))
  \/ \E h \in ValidHeaders, id \in 1..MaxRows, body \in OrganizeBodies :
       Len(versions) < MaxVersionRows /\ Step(PatchNote(h, id, body))
  \/ \E h \in ValidHeaders, id \in 1..MaxRows, tagIds \in SUBSET (1..MaxRows) :
       Step(SetTags(h, id, tagIds))
  \/ \E h \in ValidHeaders, id \in 1..MaxRows : Step(LockNote(h, id, Pw4))
  \/ \E h \in ValidHeaders, id \in 1..MaxRows, t \in Times : Step(SoftDelete(h, id, t))
  \/ \E h \in ValidHeaders, id \in 1..MaxRows : Step(RestoreNote(h, id))

SpecRestore == Init /\ [][NextRestore]_vars

(***************************************************************************)
(* SpecGuard: every route, asked with and without a token that verifies.   *)
(* User 1 is logged in; the other headers are no header, a Basic header, a *)
(* token signed with another secret and an expired token.                  *)
(***************************************************************************)
GuardHeaders == Headers \ {<<"Bearer", jwtSign(2)>>}
Unverified == GuardHeaders \ {<<"Bearer", jwtSign(1)>>}

\* User 1 builds the data up and reads it; the routes that take data away
\* are asked with the unverified headers only.
NextGuard ==
  \/ \E h \in GuardHeaders : Step(GetNotes(h))
  \/ \E h \in GuardHeaders : Step(GetTrash(h))
  \/ \E h \in GuardHeaders : Step(GetRandom(h))
  \/ \E h \in GuardHeaders : Step(GetThisDay(h))
  \/ \E h \in GuardHeaders : Step(GetStats(h))
  \/ \E h \in GuardHeaders : nextNoteId <= MaxRows /\ Step(CreateNote(h, "", "C", 0))
  \/ \E h \in GuardHeaders, id \in 1..MaxRows :
       Len(versions) < MaxRows
         /\ Step(PatchNote(h, id, PatchBody(None, Some(""), None, None, None)))
  \/ \E h \in GuardHeaders, id \in 1..MaxRows : Step(SetTags(h, id, 1..MaxRows))
  \/ \E h \in GuardHeaders, id \in 1..MaxRows : Step(LockNote(h, id, Pw4))
  \/ \E h \in GuardHeaders, id \in 1..MaxRows : Step(UnlockNote(h, id, Pw4))
  \/ \E h \in Unverified, id \in 1..MaxRows : Step(RemoveLock(h, id, Pw4))
  \/ \E h \in GuardHeaders, id \in 1..MaxRows : Step(SoftDelete(h, id, 1))
  \/ \E h \in Unverified, id \in 1..MaxRows : Step(RestoreNote(h, id))
  \/ \E h \in Unverified, id \in 1..MaxRows : Step(PermanentDelete(h, id, TRUE))
  \/ \E h \in GuardHeaders, id \in 1..MaxRows : Step(GetVersions(h, id))
  \/ \E h \in GuardHeaders, id \in 1..MaxRows : Step(GetComments(h, id))
  \/ \E h \in GuardHeaders, id \in 1..MaxRows :
       seq.comment <= MaxRows /\ Step(PostComment(h, id, <<"W">>))
  \/ \E h \in Unverified, id \in 1..MaxRows : Step(DeleteComment(h, id))
  \/ \E h \in GuardHeaders : Step(GetFolders(h))
  \/ \E h \in GuardHeaders : seq.folder <= MaxRows /\ Step(PostFolder(h, <<"W">>))
  \/ \E h \in Unverified, id \in 1..MaxRows : Step(DeleteFolder(h, id, TRUE))
  \/ \E h \in GuardHeaders : Step(GetTags(h))
  \/ \E h \in GuardHeaders : seq.tag <= MaxRows /\ Step(PostTag(h, <<"W">>))
  \/ \E h \in Unverified, id \in 1..MaxRows : Step(DeleteTag(h, id))
  \/ \E h \in GuardHeaders : Cardinality(files) < MaxRows /\ Step(Upload(h, "image/png"))
  \/ \E h \in GuardHeaders : Step(GetFile(h, [userId |-> 1, n |-> 1]))

SpecGuard == Init /\ [][NextGuard]_vars

(***************************************************************************)
(* SpecVersions: one note edited again and again, past the limit of        *)
(* MaxVersions versions.                                                   *)
(***************************************************************************)
User1 == <<"Bearer", jwtSign(1)>>

NextVersions ==
  \/ \E c \in Contents : nextNoteId <= MaxRows /\ Step(CreateNote(User1, "", c, 0))
  \/ \E id \in 1..MaxRows, body \in {PatchBody(Some("T"), None, None, None, None),
                                      PatchBody(None, Some("C"), None, None, None)} :
       nextVersionId <= MaxSnapshots /\ Step(PatchNote(User1, id, body))
  \/ \E id \in 1..MaxRows : Step(GetVersions(User1, id))

SpecVersions == Init /\ [][NextVersions]_vars

(***************************************************************************)
(* The browser (App.tsx).  client.now is the clock in ms; client.activeId  *)
(* the selected note (0 for null); client.local the notes state;           *)
(* client.timers the timeouts the runtime holds, each with the handle      *)
(* setTimeout returned, its due time and what its callback closed over;    *)
(* client.saveTimer is saveTimer.current (0 for null).  client.calls       *)
(* records the calls of updateNote, client.sent the PATCH requests issued  *)
(* (with the call whose timeout issued them) and client.inflight those     *)
(* the server has not handled yet.                                         *)
(***************************************************************************)
Fields == {"title", "content"}
Edits(field) == IF field = "title" THEN Titles ELSE Contents
Delays == {250, 500}

clearTimeout_Noop(timers, handle) == timers

\* clearTimeout(handle): the timeout is dropped if it is still pending; a
\* handle whose callback has already run is ignored.
clearTimeout(timers, handle) == {t \in timers : t.handle # handle}

\* api.update(id, { [field]: value }): the body of the PATCH.
UpdateBody(field, value) ==
  IF field = "title" THEN PatchBody(Some(value), None, None, None, None)
                     ELSE PatchBody(None, Some(value), None, None, None)

\* User 1 has created two empty notes and the app has loaded them; either
\* can be the first of the list, which the initial load selects.
InitClient ==
  /\ users = (1 :> [username |-> "alice", password |-> bcryptHash(Pw4)])
             @@ (2 :> [username |-> "bob", password |-> bcryptHash(Pw4b)])
  /\ notes = [i \in 1..2 |->
                [userId |-> 1, title |-> "", content |-> "", pinned |-> FALSE,
                 folderId |-> 0, tags |-> {}, lockPassword |-> <<>>, deletedAt |-> 0]]
  /\ nextNoteId = 3
  /\ versions = <<>>
  /\ nextVersionId = 1
  /\ folders = <<>>
  /\ tags = <<>>
  /\ comments = <<>>
  /\ files = {}
  /\ seq = [folder |-> 1, tag |-> 1, comment |-> 1]
  /\ req = Request("GET /api/notes", User1, 0, <<>>)
  /\ resp = NotesJson({Sanitized(i, notes[i]) : i \in 1..2})
  /\ hist = [before |-> <<>>, trail |-> <<>>]
  /\ \E first \in 1..2 :
       client = [now |-> 0, activeId |-> first,
                 local |-> [i \in 1..2 |-> [title |-> "", content |-> "", tags |-> {}]],
                 timers |-> {}, saveTimer |-> 0,
                 calls |-> <<>>, sent |-> <<>>, inflight |-> {},
               toggles |-> <<>>, tagReqs |-> {}, tagResps |-> {}]
  /\ pending = <<>>

\* A callback that is due runs before the next input event is handled.
NoTimerDue == \A t \in client.timers : t.due > client.now

\* updateNote(field, value): the local copy changes at once, the pending
\* timeout of saveTimer is cleared and a new one is set, DebounceMs from now.
updateNote(field, value) ==
  LET handle == Len(client.calls) + 1
      id == client.activeId
  IN
  /\ id # 0
  /\ NoTimerDue
  /\ Len(client.calls) < MaxCalls
  /\ client' = [client EXCEPT
       !.local = [@ EXCEPT ![id] = IF field = "title" THEN [@ EXCEPT !.title = value]
                                                      ELSE [@ EXCEPT !.content = value]],
       !.timers = (IF client.saveTimer # 0 THEN clearTimeout(@, client.saveTimer) ELSE @)
                  \cup {[handle |-> handle, due |-> client.now + DebounceMs,
                         id |-> id, field |-> field, value |-> value]},
       !.saveTimer = handle,
       !.calls = Append(@, [t |-> client.now, id |-> id, field |-> field, value |-> value])]
  /\ UNCHANGED <<db, req, resp, hist, pending>>

\* The list's onClick: setActiveId(id).
SelectNote(id) ==
  /\ NoTimerDue
  /\ id # client.activeId
  /\ client' = [client EXCEPT !.activeId = id]
  /\ UNCHANGED <<db, req, resp, hist, pending>>

\* The callback of a timeout that is due: api.update sends the PATCH.
TimerFires ==
  \E t \in client.timers :
    /\ t.due = client.now
    /\ client' = [client EXCEPT
         !.timers = @ \ {t},
         !.sent = Append(@, [t |-> client.now, call |-> t.handle, id |-> t.id,
                             field |-> t.field, value |-> t.value]),
         !.inflight = @ \cup {Len(client.sent) + 1}]
    /\ UNCHANGED <<db, req, resp, hist, pending>>

\* d ms pass; no timeout is overdue.
Tick(d) ==
  /\ client.now + d <= MaxTime
  /\ \A t \in client.timers : client.now + d <= t.due
  /\ client' = [client EXCEPT !.now = @ + d]
  /\ UNCHANGED <<db, req, resp, hist, pending>>

\* The server handles one of the PATCH requests on their way, whichever
\* reaches it first.
ServerHandles(k) ==
  /\ k \in client.inflight
  /\ PatchNote(User1, client.sent[k].id, UpdateBody(client.sent[k].field, client.sent[k].value))
  /\ History
  /\ client' = [client EXCEPT !.inflight = @ \ {k}]
  /\ UNCHANGED pending

(***************************************************************************)
(* SpecClient: user 1 edits titles and contents in the browser, selects    *)
(* notes, time passes, and the server handles the PATCH requests.          *)
(***************************************************************************)
NextClient ==
  \/ \E field \in Fields : \E value \in Edits(field) : updateNote(field, value)
  \/ \E id \in 1..2 : SelectNote(id)
  \/ TimerFires
  \/ \E d \in Delays : Tick(d)
  \/ \E k \in 1..MaxCalls : ServerHandles(k)

SpecClient == InitClient /\ [][NextClient]_vars

(***************************************************************************)
(* Tags in the browser.  client.toggles records the calls of toggleTag;    *)
(* client.tagReqs are the PUT requests on their way to the server and      *)
(* client.tagResps the answers on their way back.  toggleTag reads the     *)
(* tags of `active`, the note as the last render had it.                   *)
(***************************************************************************)
InitialTags == {1}

\* User 1 has tags 1 and 2 and one note, which carries tag 1 and is selected.
InitTags ==
  /\ users = (1 :> [username |-> "alice", password |-> bcryptHash(Pw4)])
             @@ (2 :> [username |-> "bob", password |-> bcryptHash(Pw4b)])
  /\ notes = (1 :> [userId |-> 1, title |-> "", content |-> "C", pinned |-> FALSE,
                    folderId |-> 0, tags |-> InitialTags, lockPassword |-> <<>>, deletedAt |-> 0])
  /\ nextNoteId = 2
  /\ versions = <<>>
  /\ nextVersionId = 1
  /\ folders = <<>>
  /\ tags = [t \in 1..2 |-> [userId |-> 1, name |-> <<"W">>]]
  /\ comments = <<>>
  /\ files = {}
  /\ seq = [folder |-> 1, tag |-> 3, comment |-> 1]
  /\ req = Request("GET /api/notes", User1, 0, <<>>)
  /\ resp = NotesJson({Sanitized(1, notes[1])})
  /\ hist = [before |-> <<>>, trail |-> <<>>]
  /\ client = [now |-> 0, activeId |-> 1,
               local |-> (1 :> [title |-> "", content |-> "C", tags |-> InitialTags]),
               timers |-> {}, saveTimer |-> 0,
               calls |-> <<>>, sent |-> <<>>, inflight |-> {},
               toggles |-> <<>>, tagReqs |-> {}, tagResps |-> {}]
  /\ pending = <<>>

\* has ? active.tags without tagId : active.tags with tagId
newTagIds(activeTags, tagId) ==
  IF tagId \in activeTags THEN activeTags \ {tagId} ELSE activeTags \cup {tagId}

\* toggleTag(tagId) up to the await: api.setTags(active.id, newTagIds) is sent.
toggleTag(tagId) ==
  LET id == client.activeId
      n == Len(client.toggles) + 1
  IN
  /\ id # 0
  /\ n <= MaxCalls
  /\ client' = [client EXCEPT
       !.toggles = Append(@, tagId),
       !.tagReqs = @ \cup {[n |-> n, id |-> id, tagIds |-> newTagIds(client.local[id].tags, tagId)]}]
  /\ UNCHANGED <<db, req, resp, hist, pending>>

\* The server handles one of the PUT requests on their way; its answer, the
\* updated note or nothing a note can be read from, travels back.
ServerSetTags(m) ==
  /\ m \in client.tagReqs
  /\ SetTags(User1, m.id, m.tagIds)
  /\ History
  /\ client' = [client EXCEPT
       !.tagReqs = @ \ {m},
       !.tagResps = @ \cup {[n |-> m.n, id |-> m.id, ok |-> resp'.status = 200,
                             title |-> notes'[m.id].title, content |-> notes'[m.id].content,
                             tags |-> notes'[m.id].tags]}]
  /\ UNCHANGED pending

\* toggleTag after the await: setNotes puts `updated` in the place of the note.
TagsAnswerArrives(m) ==
  /\ m \in client.tagResps
  /\ client' = [client EXCEPT
       !.tagResps = @ \ {m},
       !.local = IF m.ok THEN [@ EXCEPT ![m.id] = [title |-> m.title, content |-> m.content,
                                                   tags |-> m.tags]]
                         ELSE @]
  /\ UNCHANGED <<db, req, resp, hist, pending>>

(***************************************************************************)
(* SpecTags: user 1 clicks tags of the selected note, and, outside the     *)
(* browser, puts tag sets on it directly.                                  *)
(***************************************************************************)
NextTags ==
  \/ \E t \in 1..2 : toggleTag(t)
  \/ \E m \in client.tagReqs : ServerSetTags(m)
  \/ \E m \in client.tagResps : TagsAnswerArrives(m)
  \/ \E tagIds \in SUBSET (1..3) :
       client.tagReqs = {} /\ client.tagResps = {} /\ client.toggles = <<>>
         /\ Step(SetTags(User1, 1, tagIds))

SpecTags == InitTags /\ [][NextTags]_vars

(***************************************************************************)
(* Accounts.  A register handler that has passed its checks is suspended   *)
(* at the await of user.create, where other handlers run; username is a    *)
(* unique column (findUnique takes it), so a create of a name that has     *)
(* been taken meanwhile rejects.                                           *)
(***************************************************************************)
Usernames == {"", "alice", "carol", "dave"}
Passwords == {<<>>, Pw3, Pw4}

\* res.json({ token, user })
TokenJson == [status |-> 200, error |-> "", notes |-> {}, versions |-> <<>>, other |-> "token"]

NameTaken(username) == \E u \in DOMAIN users : users[u].username = username

NewTicket == CHOOSE k \in 1..MaxInFlight : k \notin DOMAIN pending

\* app.post('/api/register') up to findUnique: !username and !password hold
\* of undefined and of the empty string alike.
RegisterBegin(username, password) ==
  LET refusal == IF username = "" \/ password = <<>> THEN "username and password required"
                 ELSE IF Len(password) < MinPasswordLen THEN "password needs 4 characters"
                 ELSE IF NameTaken(username) THEN "username exists"
                 ELSE ""
  IN
  IF refusal # ""
    THEN /\ req' = Request("POST /api/register", <<>>, 0, [username |-> username, password |-> password])
         /\ resp' = ErrorJson(400, refusal)
         /\ UNCHANGED <<db, pending>>
         /\ History
    ELSE /\ Cardinality(DOMAIN pending) < MaxInFlight
         /\ pending' = pending @@ (NewTicket :> [op |-> "register", username |-> username,
                                                  password |-> password])
         /\ UNCHANGED <<db, req, resp, hist>>

\* app.post('/api/register') from user.create on.
RegisterCreate(k) ==
  /\ k \in DOMAIN pending
  /\ pending[k].op = "register"
  /\ LET r == pending[k]
         id == Cardinality(DOMAIN users) + 1
     IN
     /\ req' = Request("POST /api/register", <<>>, 0, [username |-> r.username, password |-> r.password])
     /\ IF NameTaken(r.username)
          \* the unique constraint fails: the promise rejects
          THEN resp' = Thrown /\ UNCHANGED db
          ELSE /\ users' = users @@ (id :> [username |-> r.username, password |-> bcryptHash(r.password)])
               /\ resp' = TokenJson
               /\ UNCHANGED <<notes, nextNoteId, versions, nextVersionId, folders, tags, comments, files, seq>>
  /\ pending' = Without(pending, {k})
  /\ History

\* app.post('/api/login'): it only reads.  An undefined username makes
\* findUnique reject, an undefined password bcrypt.compare.
Login(username, password) ==
  /\ req' = Request("POST /api/login", <<>>, 0, [username |-> username, password |-> password])
  /\ resp' = IF username = "" THEN Thrown
             ELSE IF ~NameTaken(username) THEN ErrorJson(400, "no such user")
             ELSE IF password = <<>> THEN Thrown
             ELSE IF \E u \in DOMAIN users :
                       users[u].username = username /\ bcryptCompare(password, users[u].password)
               THEN TokenJson
             ELSE ErrorJson(400, "wrong password")
  /\ UNCHANGED db

(***************************************************************************)
(* SpecRegister: register and login requests, up to MaxInFlight register   *)
(* handlers in progress at a time.                                         *)
(***************************************************************************)
NextRegister ==
  \/ \E username \in Usernames, password \in Passwords :
       RegisterBegin(username, password) /\ UNCHANGED client
  \/ \E k \in 1..MaxInFlight : RegisterCreate(k) /\ UNCHANGED client
  \/ \E username \in Usernames, password \in Passwords : Step(Login(username, password))

SpecRegister == Init /\ [][NextRegister]_vars

(***************************************************************************)
(* PATCH, await by await.  Between two awaits of one handler the handlers  *)
(* of other requests run.  A handler in progress keeps what it has read:   *)
(* the row findFirst gave (note), the count (versionCount) and the ids     *)
(* findMany gave (oldest).                                                 *)
(***************************************************************************)
\* app.patch up to the whitelist: findFirst, the lock check, data.
PatchBegin(h, id, body) ==
  LET a == authenticate(h)
      refusal == IF ~a.ok THEN ErrorJson(401, a.error)
                 ELSE IF ~findFirst(id, a.userId) THEN ErrorJson(404, "note not found")
                 ELSE IF PatchRefused(notes[id], body) THEN ErrorJson(403, "wrong password")
                 ELSE OkJson("")
  IN
  IF refusal.status # 200
    THEN /\ req' = Request("PATCH /api/notes/:id", h, id, body)
         /\ resp' = refusal
         /\ UNCHANGED <<db, client, pending>>
         /\ History
    ELSE /\ Cardinality(DOMAIN pending) < MaxInFlight
         /\ pending' = pending @@
              (NewTicket :> [op |-> "patch", header |-> h, id |-> id, body |-> body,
                             pc |-> IF Present(body.content) \/ Present(body.title)
                                      THEN "create" ELSE "update",
                             note |-> notes[id], versionCount |-> 0, oldest |-> {}])
         /\ UNCHANGED <<db, req, resp, hist, client>>

At(k, pc) == k \in DOMAIN pending /\ pending[k].op = "patch" /\ pending[k].pc = pc

\* The handler k ends with the response r.
Respond(k, r) ==
  /\ req' = Request("PATCH /api/notes/:id", pending[k].header, pending[k].id, pending[k].body)
  /\ resp' = r
  /\ pending' = Without(pending, {k})
  /\ History
  /\ UNCHANGED client

\* await prisma.noteVersion.create(...); it rejects when the note is gone.
PatchCreate(k) ==
  /\ At(k, "create")
  /\ LET r == pending[k]
         n == SnapshotSource(r.note, ApplyData(r.note, r.body))
     IN IF r.id \notin DOMAIN notes
          THEN UNCHANGED db /\ Respond(k, Thrown)
          ELSE /\ versions' = Append(versions, [id |-> nextVersionId, noteId |-> r.id,
                                                 title |-> n.title, content |-> n.content])
               /\ nextVersionId' = nextVersionId + 1
               /\ pending' = [pending EXCEPT ![k].pc = "count"]
               /\ UNCHANGED <<users, notes, nextNoteId, folders, tags, comments, files, seq,
                              req, resp, hist, client>>

\* const versionCount = await prisma.noteVersion.count(...); if (versionCount > 50)
PatchCount(k) ==
  /\ At(k, "count")
  /\ LET versionCount == Len(VersionsOf(versions, pending[k].id)) IN
     pending' = [pending EXCEPT ![k].versionCount = versionCount,
                                ![k].pc = IF versionCount > MaxVersions THEN "find" ELSE "update"]
  /\ UNCHANGED <<db, req, resp, hist, client>>

\* const oldest = await prisma.noteVersion.findMany({ ..., take: versionCount - 50 })
PatchFind(k) ==
  /\ At(k, "find")
  /\ LET oldest == Take(VersionsOf(versions, pending[k].id), pending[k].versionCount - MaxVersions) IN
     pending' = [pending EXCEPT ![k].oldest = {oldest[j].id : j \in 1..Len(oldest)},
                                ![k].pc = "delete"]
  /\ UNCHANGED <<db, req, resp, hist, client>>

\* await prisma.noteVersion.deleteMany({ where: { id: { in: oldest.map(v => v.id) } } })
PatchDelete(k) ==
  /\ At(k, "delete")
  /\ versions' = SelectSeq(versions, LAMBDA v : v.id \notin pending[k].oldest)
  /\ pending' = [pending EXCEPT ![k].pc = "update"]
  /\ UNCHANGED <<users, notes, nextNoteId, nextVersionId, folders, tags, comments, files, seq,
                 req, resp, hist, client>>

\* const updated = await prisma.note.update({ where: { id }, data }); res.json(...)
PatchUpdate(k) ==
  /\ At(k, "update")
  /\ LET r == pending[k] IN
     IF r.id \notin DOMAIN notes
       THEN UNCHANGED db /\ Respond(k, Thrown)
     ELSE LET updated == ApplyData(notes[r.id], r.body) IN
       IF updated.folderId # 0 /\ updated.folderId \notin DOMAIN folders
         THEN UNCHANGED db /\ Respond(k, Thrown)
         ELSE /\ notes' = [notes EXCEPT ![r.id] = updated]
              /\ UNCHANGED <<users, nextNoteId, versions, nextVersionId, folders, tags,
                             comments, files, seq>>
              /\ Respond(k, NotesJson({PatchView(r.id, updated)}))

(***************************************************************************)
(* SpecPrune: user 1 edits note 1, which has one version less than the     *)
(* limit, with up to MaxInFlight PATCH handlers in progress at a time.     *)
(***************************************************************************)
InitPrune ==
  /\ users = (1 :> [username |-> "alice", password |-> bcryptHash(Pw4)])
             @@ (2 :> [username |-> "bob", password |-> bcryptHash(Pw4b)])
  /\ notes = (1 :> [userId |-> 1, title |-> "", content |-> "C", pinned |-> FALSE,
                    folderId |-> 0, tags |-> {}, lockPassword |-> <<>>, deletedAt |-> 0])
  /\ nextNoteId = 2
  /\ versions = [v \in 1..(MaxVersions - 1) |-> [id |-> v, noteId |-> 1, title |-> "", content |-> ""]]
  /\ nextVersionId = MaxVersions
  /\ folders = <<>>
  /\ tags = <<>>
  /\ comments = <<>>
  /\ files = {}
  /\ seq = [folder |-> 1, tag |-> 1, comment |-> 1]
  /\ req = Request("none", <<>>, 0, <<>>)
  /\ resp = OkJson("none")
  /\ hist = [before |-> <<>>, trail |-> <<>>]
  /\ client = [now |-> 0, activeId |-> 0, local |-> <<>>, timers |-> {}, saveTimer |-> 0,
               calls |-> <<>>, sent |-> <<>>, inflight |-> {},
               toggles |-> <<>>, tagReqs |-> {}, tagResps |-> {}]
  /\ pending = <<>>

NextPrune ==
  \/ \E c \in Contents :
       /\ nextVersionId + Cardinality(DOMAIN pending) <= MaxSnapshots
       /\ PatchBegin(User1, 1, PatchBody(None, Some(c), None, None, None))
  \/ \E k \in 1..MaxInFlight : PatchCreate(k)
  \/ \E k \in 1..MaxInFlight : PatchCount(k)
  \/ \E k \in 1..MaxInFlight : PatchFind(k)
  \/ \E k \in 1..MaxInFlight : PatchDelete(k)
  \/ \E k \in 1..MaxInFlight : PatchUpdate(k)
  \/ Step(GetVersions(User1, 1))

SpecPrune == InitPrune /\ [][NextPrune]_vars

(***************************************************************************)
(* SpecLock: users 1 and 2 create notes, lock them, unlock them, remove    *)
(* the locks and list them, with right, wrong and missing passwords.       *)
(***************************************************************************)
NextLock ==
  \/ \E h \in ValidHeaders : Step(GetNotes(h))
  \/ \E h \in ValidHeaders, c \in Contents :
       nextNoteId <= MaxNotes /\ Step(CreateNote(h, "", c, 0))
  \/ \E h \in ValidHeaders, id \in NoteIds, pw \in {<<>>, Pw3, Pw4, Pw4b} : Step(LockNote(h, id, pw))
  \/ \E h \in ValidHeaders, id \in NoteIds, pw \in {<<>>, Pw4, Pw4b} : Step(UnlockNote(h, id, pw))
  \/ \E h \in ValidHeaders, id \in NoteIds, pw \in {<<>>, Pw4, Pw4b} : Step(RemoveLock(h, id, pw))

SpecLock == Init /\ [][NextLock]_vars

(***************************************************************************)
(* SpecMissing: users 1 and 2 ask for notes 1..MaxNotes, of which at most  *)
(* MaxRows are ever created: ids that were never given, ids of the other   *)
(* user's notes and ids of notes that were deleted for good.               *)
(***************************************************************************)
NextMissing ==
  \/ \E h \in ValidHeaders : Step(GetNotes(h))
  \/ \E h \in ValidHeaders : Step(GetTrash(h))
  \/ \E h \in ValidHeaders : nextNoteId <= MaxRows /\ Step(CreateNote(h, "", "C", 0))
  \/ \E h \in ValidHeaders, id \in NoteIds :
       Len(versions) < MaxRows
         /\ Step(PatchNote(h, id, PatchBody(None, Some(""), None, None, None)))
  \/ \E h \in ValidHeaders, id \in NoteIds : Step(LockNote(h, id, Pw4))
  \/ \E h \in ValidHeaders, id \in NoteIds : Step(UnlockNote(h, id, Pw4))
  \/ \E h \in ValidHeaders, id \in NoteIds : Step(RemoveLock(h, id, Pw4))
  \/ \E h \in ValidHeaders, id \in NoteIds : Step(SoftDelete(h, id, 1))
  \/ \E h \in ValidHeaders, id \in NoteIds : Step(RestoreNote(h, id))
  \/ \E h \in ValidHeaders, id \in NoteIds, cascade \in BOOLEAN : Step(PermanentDelete(h, id, cascade))
  \/ \E h \in ValidHeaders, id \in NoteIds : Step(GetVersions(h, id))
  \/ \E h \in ValidHeaders, id \in NoteIds : Step(GetComments(h, id))
  \/ \E h \in ValidHeaders, id \in NoteIds :
       seq.comment <= MaxRows /\ Step(PostComment(h, id, <<"W">>))

SpecMissing == Init /\ [][NextMissing]_vars

(***************************************************************************)
(* SpecWhitelist: PATCH bodies that carry, next to the editable fields,    *)
(* keys a client has no business sending.                                  *)
(***************************************************************************)
\* Keys outside the whitelist: hand the note to user 2, take it out of the
\* trash, drop its lock and its tags.
Extras == [id |-> 2, userId |-> 2, deletedAt |-> 0, lockPassword |-> <<>>, createdAt |-> 0, tags |-> {}]

WhitelistBodies ==
  LET base == {PatchBody(Some("T"), None, None, None, None),
               PatchBody(None, None, Some(TRUE), None, None)}
  IN base \cup {Extras @@ b : b \in base}

NextWhitelist ==
  \/ \E h \in ValidHeaders : nextNoteId <= MaxNotes /\ Step(CreateNote(h, "", "C", 0))
  \/ seq.tag <= MaxRows /\ Step(PostTag(User1, <<"W">>))
  \/ \E h \in ValidHeaders, id \in NoteIds : Step(SetTags(h, id, 1..MaxRows))
  \/ \E h \in ValidHeaders, id \in NoteIds : Step(LockNote(h, id, Pw4))
  \/ \E h \in ValidHeaders, id \in NoteIds : Step(SoftDelete(h, id, 1))
  \/ \E h \in ValidHeaders, id \in NoteIds, body \in WhitelistBodies :
       Len(versions) < MaxRows /\ Step(PatchNote(h, id, body))

SpecWhitelist == Init /\ [][NextWhitelist]_vars

(***************************************************************************)
(* SpecFolders: users 1 and 2 make folders, create notes in them, move     *)
(* them between folders and delete folders; user 1 also pins, tags and     *)
(* soft-deletes notes.                                                     *)
(***************************************************************************)
NextFolders ==
  \/ \E h \in ValidHeaders : seq.folder <= MaxFolders /\ Step(PostFolder(h, <<"W">>))
  \/ seq.tag <= MaxRows /\ Step(PostTag(User1, <<"W">>))
  \/ \E h \in ValidHeaders, f \in 1..MaxFolders :
       nextNoteId <= MaxNotes /\ Step(CreateNote(h, "", "C", f))
  \/ \E id \in NoteIds :
       Step(PatchNote(User1, id, PatchBody(None, None, Some(TRUE), None, None)))
  \/ \E h \in ValidHeaders, id \in NoteIds, f \in 1..MaxFolders :
       Step(PatchNote(h, id, PatchBody(None, None, None, Some(f), None)))
  \/ \E id \in NoteIds : Step(SetTags(User1, id, 1..MaxRows))
  \/ \E id \in NoteIds : Step(SoftDelete(User1, id, 1))
  \/ \E h \in ValidHeaders, f \in 1..MaxFolders, setNull \in BOOLEAN :
       Step(DeleteFolder(h, f, setNull))

SpecFolders == Init /\ [][NextFolders]_vars

(***************************************************************************)
(* SpecOwners: users 1 and 2 make a note, a folder, a tag and a comment    *)
(* (at most MaxRows of each, by either user), and both send the changing   *)
(* requests with every id, their own and the other user's.                 *)
(***************************************************************************)
NextOwners ==
  \/ \E h \in ValidHeaders : nextNoteId <= MaxRows /\ Step(CreateNote(h, "", "C", 0))
  \/ \E h \in ValidHeaders : seq.folder <= MaxRows /\ Step(PostFolder(h, <<"W">>))
  \/ \E h \in ValidHeaders : seq.tag <= MaxRows /\ Step(PostTag(h, <<"W">>))
  \/ \E h \in ValidHeaders, id \in NoteIds :
       seq.comment <= MaxRows /\ Step(PostComment(h, id, <<"W">>))
  \/ \E h \in ValidHeaders, id \in NoteIds : Step(SoftDelete(h, id, 1))
  \/ \E h \in ValidHeaders, id \in NoteIds :
       Len(versions) < MaxRows
         /\ Step(PatchNote(h, id, PatchBody(Some("T"), None, None, None, None)))
  \/ \E h \in ValidHeaders, id \in NoteIds, f \in 1..MaxRows :
       Step(PatchNote(h, id, PatchBody(None, None, None, Some(f), None)))
  \/ \E h \in ValidHeaders, id \in NoteIds, tagIds \in SUBSET (1..MaxRows) :
       Step(SetTags(h, id, tagIds))
  \/ \E h \in ValidHeaders, id \in NoteIds : Step(RestoreNote(h, id))
  \/ \E h \in ValidHeaders, id \in NoteIds, cascade \in BOOLEAN :
       Step(PermanentDelete(h, id, cascade))
  \/ \E h \in ValidHeaders, id \in NoteIds : Step(LockNote(h, id, Pw4))
  \/ \E h \in ValidHeaders, f \in 1..MaxRows, setNull \in BOOLEAN :
       Step(DeleteFolder(h, f, setNull))
  \/ \E h \in ValidHeaders, id \in 1..MaxRows : Step(DeleteTag(h, id))
  \/ \E h \in ValidHeaders, id \in 1..MaxRows : Step(DeleteComment(h, id))

SpecOwners == Init /\ [][NextOwners]_vars

(***************************************************************************)
(* The editor (Editor.tsx).  In SpecEditor client is the InkwellEditor      *)
(* component: client.doc is the document as a sequence of elements, each a *)
(* character of text, a paragraph break "br" or a horizontal rule "hr";    *)
(* client.cursor the number of elements before the selection;              *)
(* client.slashOpen, slashFilter and slashIndex the component's state;     *)
(* client.event the last event and client.ran the command it ran (0 for    *)
(* none, else its place in SLASH_COMMANDS).  Blocks other than paragraphs  *)
(* and rules are not told apart: a command that toggles a block type       *)
(* leaves the elements as they are.                                        *)
(*                                                                         *)
(* useEditor(options, []) gets the handlers of every render, and which of  *)
(* them the editor calls is the library's business (@tiptap/react, whose   *)
(* version the sources do not fix): client.refresh is "all" when it calls  *)
(* those of the latest render, "events" when it does so for onUpdate only  *)
(* and keeps the editorProps of the first render, "none" when it keeps all *)
(* of the first render, in which slashOpen is false.                       *)
(***************************************************************************)
\* A character of a label outside ASCII is written as its code point.
SLASH_COMMANDS ==
  << [label |-> <<"U+6807", "U+9898", " ", "1">>, inserts |-> <<>>],
     [label |-> <<"U+6807", "U+9898", " ", "2">>, inserts |-> <<>>],
     [label |-> <<"U+6807", "U+9898", " ", "3">>, inserts |-> <<>>],
     [label |-> <<"U+65E0", "U+5E8F", "U+5217", "U+8868">>, inserts |-> <<>>],
     [label |-> <<"U+6709", "U+5E8F", "U+5217", "U+8868">>, inserts |-> <<>>],
     [label |-> <<"U+4EFB", "U+52A1", "U+5217", "U+8868">>, inserts |-> <<>>],
     [label |-> <<"U+5F15", "U+7528">>, inserts |-> <<>>],
     [label |-> <<"U+4EE3", "U+7801", "U+5757">>, inserts |-> <<>>],
     [label |-> <<"U+5206", "U+5272", "U+7EBF">>, inserts |-> <<"hr">>] >>

\* A JavaScript number is a natural number here, or NaN.
NaN == 0 - 1000
\* a + b and a % n of JavaScript, where a % n is asked for no negative a
JsPlus(a, b) == IF a = NaN \/ b = NaN THEN NaN ELSE a + b
JsRem(a, n) == IF a = NaN \/ n = NaN \/ n = 0 THEN NaN ELSE a % n

\* String.prototype.toLowerCase, String.prototype.includes
toLowerCase(str) == [i \in 1..Len(str) |-> IF str[i] = "X" THEN "x" ELSE str[i]]
includes(str, sub) ==
  \E i \in 0..(Len(str) - Len(sub)) : SubSeq(str, i + 1, i + Len(sub)) = sub

\* filteredCommands: the places in SLASH_COMMANDS of the commands whose
\* label includes the filter, in order.
filteredCommands(slashFilter) ==
  SelectSeq([i \in 1..Len(SLASH_COMMANDS) |-> i],
            LAMBDA i : includes(toLowerCase(SLASH_COMMANDS[i].label), toLowerCase(slashFilter)))

\* Positions of the document (ProseMirror): the first paragraph opens at 0;
\* a character takes one position, a break two (the paragraph closes, the
\* next opens), a rule three.
Width(e) == IF e = "br" THEN 2 ELSE IF e = "hr" THEN 3 ELSE 1
RECURSIVE Pos(_, _)
Pos(doc, k) == IF k = 0 THEN 1 ELSE Pos(doc, k - 1) + Width(doc[k])

\* state.doc.textBetween(a, b, '\n'): the characters that lie in a..b, with
\* '\n' where a paragraph that follows another one in the range begins.
textBetween(doc, a, b) ==
  LET in == SelectSeq([i \in 1..Len(doc) |-> i],
                      LAMBDA i : Pos(doc, i - 1) >= a /\ Pos(doc, i) <= b)
  IN [j \in 1..Len(in) |-> IF doc[in[j]] \in {"br", "hr"} THEN "\n" ELSE doc[in[j]]]

\* textBefore of onUpdate and executeSlashCommand
textBefore(doc, cursor) ==
  LET from == Pos(doc, cursor) IN
  textBetween(doc, IF from - SlashWindow > 0 THEN from - SlashWindow ELSE 0, from)

\* str.match(/\/([^\s/]*)$/): null (<<>>), or <<the match, its group>>.
slashMatch(str) ==
  LET starts == {p \in 1..Len(str) :
                   /\ str[p] = "/"
                   /\ \A q \in (p + 1)..Len(str) : str[q] \notin {" ", "\n", "/"}}
  IN IF starts = {} THEN <<>>
     ELSE LET p == CHOOSE x \in starts : \A y \in starts : x <= y
          IN <<SubSeq(str, p, Len(str)), SubSeq(str, p + 1, Len(str))>>

Insert(doc, cursor, es) == SubSeq(doc, 1, cursor) \o es \o SubSeq(doc, cursor + 1, Len(doc))
Delete(doc, from, to) == SubSeq(doc, 1, from) \o SubSeq(doc, to + 1, Len(doc))

\* closeSlash()
closeSlash(c) == [c EXCEPT !.slashOpen = FALSE, !.slashFilter = <<>>, !.slashIndex = 0]

\* onUpdate on the editor c; slashOpen is what the closure called holds.
onUpdate(c, slashOpen) ==
  LET m == slashMatch(textBefore(c.doc, c.cursor)) IN
  IF m # <<>> THEN [c EXCEPT !.slashFilter = m[2], !.slashIndex = 0, !.slashOpen = TRUE]
  ELSE IF slashOpen THEN closeSlash(c) ELSE c

\* What the handlers the editor calls hold as slashOpen.
UpdateSeesOpen == client.refresh # "none" /\ client.slashOpen
KeySeesOpen == client.refresh = "all" /\ client.slashOpen

\* executeSlashCommand(index) of the latest render: the slash text before
\* the selection is deleted, the command runs, the menu closes; each change
\* of the document calls onUpdate before closeSlash has the last word.
executeSlashCommand(c, index) ==
  LET cmds == filteredCommands(c.slashFilter)
      m == slashMatch(textBefore(c.doc, c.cursor))
      deleted == IF m = <<>> THEN c
                 ELSE onUpdate([c EXCEPT !.doc = Delete(@, c.cursor - Len(m[1]), c.cursor),
                                         !.cursor = @ - Len(m[1])], c.slashOpen)
      cmd == SLASH_COMMANDS[cmds[index + 1]]
      acted == onUpdate([deleted EXCEPT !.doc = Insert(@, deleted.cursor, cmd.inserts),
                                        !.cursor = @ + Len(cmd.inserts),
                                        !.ran = cmds[index + 1]], c.slashOpen)
  IN IF index = NaN \/ index >= Len(cmds) THEN c ELSE closeSlash(acted)

InitEditor ==
  /\ users = (1 :> [username |-> "alice", password |-> bcryptHash(Pw4)])
  /\ notes = <<>>
  /\ nextNoteId = 1
  /\ versions = <<>>
  /\ nextVersionId = 1
  /\ folders = <<>>
  /\ tags = <<>>
  /\ comments = <<>>
  /\ files = {}
  /\ seq = [folder |-> 1, tag |-> 1, comment |-> 1]
  /\ req = Request("none", <<>>, 0, <<>>)
  /\ resp = OkJson("none")
  /\ hist = [before |-> <<>>, trail |-> <<>>]
  /\ \E refresh \in {"none", "events", "all"} :
       client = [doc |-> <<>>, cursor |-> 0, slashOpen |-> FALSE, slashFilter |-> <<>>,
                 slashIndex |-> 0, refresh |-> refresh, event |-> "none", ran |-> 0]
  /\ pending = <<>>

\* Room for one more element at the selection.
CanInsert(e) ==
  /\ Len(client.doc) < MaxDoc
  /\ Len(client.doc) < MaxFree \/ (e = "x" /\ client.cursor = Len(client.doc))

\* A character is typed at the selection.
Type(ch) ==
  /\ CanInsert(ch)
  /\ client' = onUpdate([client EXCEPT !.doc = Insert(@, client.cursor, <<ch>>),
                                       !.cursor = @ + 1, !.event = "type", !.ran = 0],
                        UpdateSeesOpen)
  /\ UNCHANGED <<db, req, resp, hist, pending>>

\* Backspace deletes the element before the selection.
Backspace ==
  /\ client.cursor > 0
  /\ client' = onUpdate([client EXCEPT !.doc = Delete(@, client.cursor - 1, client.cursor),
                                       !.cursor = @ - 1, !.event = "Backspace", !.ran = 0],
                        UpdateSeesOpen)
  /\ UNCHANGED <<db, req, resp, hist, pending>>

\* A click puts the selection elsewhere; the document is as it was, so
\* onUpdate is not called.
SetSelection(p) ==
  /\ Len(client.doc) <= MaxFree
  /\ p \in 0..Len(client.doc) /\ p # client.cursor
  /\ client' = [client EXCEPT !.cursor = p, !.event = "select", !.ran = 0]
  /\ UNCHANGED <<db, req, resp, hist, pending>>

\* handleKeyDown(view, event) for one of the four keys, and, when it
\* returns false, what the editor does with the key itself: an arrow moves
\* the selection, Enter breaks the paragraph, Escape does nothing.
KeyDown(key) ==
  LET n == Len(filteredCommands(client.slashFilter))
      c == [client EXCEPT !.event = key, !.ran = 0]
  IN
  /\ IF KeySeesOpen
       THEN client' =
              IF key = "ArrowDown"
                THEN [c EXCEPT !.slashIndex = JsRem(JsPlus(@, 1), n)]
              ELSE IF key = "ArrowUp"
                THEN [c EXCEPT !.slashIndex = JsRem(JsPlus(JsPlus(@, -1), n), n)]
              ELSE IF key = "Enter"
                THEN executeSlashCommand(c, client.slashIndex)
              ELSE closeSlash(c)
     ELSE IF key \in {"ArrowDown", "ArrowUp"}
       THEN /\ Len(client.doc) <= MaxFree
            /\ \E p \in 0..Len(client.doc) : client' = [c EXCEPT !.cursor = p]
     ELSE IF key = "Enter"
       THEN /\ CanInsert("br")
            /\ client' = onUpdate([c EXCEPT !.doc = Insert(@, client.cursor, <<"br">>),
                                            !.cursor = @ + 1], UpdateSeesOpen)
     ELSE client' = c
  /\ UNCHANGED <<db, req, resp, hist, pending>>

(***************************************************************************)
(* SpecEditor: the user types, deletes, clicks and presses the four keys   *)
(* of the slash menu.  "x" is in no label, "U+8868" in three.              *)
(***************************************************************************)
NextEditor ==
  \/ \E ch \in {"/", " ", "x", "U+8868"} : Type(ch)
  \/ Backspace
  \/ \E p \in 0..MaxFree : SetSelection(p)
  \/ \E key \in {"ArrowDown", "ArrowUp", "Enter", "Escape"} : KeyDown(key)

SpecEditor == InitEditor /\ [][NextEditor]_vars

(***************************************************************************)
(* The session (api.ts, Login.tsx, App).  In SpecSession client is the      *)
(* App component and sessionStorage: client.token is the item 'token'      *)
(* (<<>> for none, <<t>> for the token t); client.loggedIn the state of    *)
(* App, which shows NotesApp when it is true and Login when it is not;     *)
(* client.reqs the requests on their way to the server, client.tickets     *)
(* the request each suspended register handler will answer, client.resps   *)
(* the answers on their way back; client.event the last thing the browser  *)
(* did.  A submit is not held back while another is on its way: the Enter  *)
(* key of the inputs calls handleSubmit whether or not loading is set.     *)
(***************************************************************************)
\* username.trim() on the names the user types: " ", "alice", "carol"
trimName(username) == IF username = " " THEN "" ELSE username

\* getToken(): sessionStorage.getItem('token')
getToken(c) == c.token

\* authHeaders(): the Authorization header is there when the token is truthy.
authHeaders(c) == IF getToken(c) # <<>> THEN <<"Bearer", getToken(c)[1]>> ELSE <<>>

\* auth.isLoggedIn(): !!getToken()
isLoggedIn(c) == getToken(c) # <<>>

logout_KeepsToken(c) == c

\* auth.logout(): sessionStorage.removeItem('token')
logout(c) == [c EXCEPT !.token = <<>>]

\* handleLogout of App
handleLogout(c) == [logout(c) EXCEPT !.loggedIn = FALSE]

\* The effect of NotesApp when it mounts: api.list() is sent with the
\* headers of that moment (folderApi.list and tagApi.list, which never
\* reject on an answer, go with it).
NotesAppMounts(c) ==
  [c EXCEPT !.n = @ + 1,
            !.reqs = @ \cup {[n |-> c.n + 1, op |-> "list", username |-> "", password |-> <<>>,
                              header |-> authHeaders(c)]}]

\* sessionStorage as an earlier page of the session left it: empty, with a
\* token that verifies, or with one that has expired since.  App starts
\* with loggedIn = auth.isLoggedIn().
InitSession ==
  /\ users = (1 :> [username |-> "alice", password |-> bcryptHash(Pw4)])
  /\ notes = <<>>
  /\ nextNoteId = 1
  /\ versions = <<>>
  /\ nextVersionId = 1
  /\ folders = <<>>
  /\ tags = <<>>
  /\ comments = <<>>
  /\ files = {}
  /\ seq = [folder |-> 1, tag |-> 1, comment |-> 1]
  /\ req = Request("none", <<>>, 0, <<>>)
  /\ resp = OkJson("none")
  /\ hist = [before |-> <<>>, trail |-> <<>>]
  /\ \E token \in {<<>>, <<jwtSign(1)>>,
                    <<[userId |-> 1, secret |-> JWT_SECRET, expired |-> TRUE]>>} :
       LET c == [token |-> token, loggedIn |-> token # <<>>, n |-> 0, reqs |-> {},
                 tickets |-> <<>>, resps |-> {},
                 event |-> [kind |-> "none", message |-> ""]]
       IN client = IF isLoggedIn(c) THEN NotesAppMounts(c) ELSE c
  /\ pending = <<>>

\* handleSubmit of Login up to the await: blank fields are refused in the
\* browser, else auth.register or auth.login sends its request.
handleSubmit(isRegister, username, password) ==
  /\ ~client.loggedIn
  /\ client.n < MaxCalls
  /\ client' =
       IF trimName(username) = "" \/ trim(password) = <<>>
         THEN [client EXCEPT !.event = [kind |-> "refused", message |-> "fill in both"]]
         ELSE [client EXCEPT
                 !.n = @ + 1,
                 !.reqs = @ \cup {[n |-> client.n + 1,
                                   op |-> IF isRegister THEN "register" ELSE "login",
                                   username |-> username, password |-> password,
                                   header |-> <<>>]},
                 !.event = [kind |-> "submit", message |-> ""]]
  /\ UNCHANGED <<db, req, resp, hist, pending>>

\* The answer of the server to request m as fetch gives it: res.ok, whether
\* the body is JSON, its error and its token.
Answer(m, r, us) ==
  [n |-> m.n, op |-> m.op, status |-> r.status, json |-> r # Thrown, error |-> r.error,
   token |-> IF r = TokenJson
               THEN <<jwtSign(CHOOSE u \in DOMAIN us : us[u].username = m.username)>>
               ELSE <<>>]

\* The server handles a login request on its way.
ServerLogin(m) ==
  /\ m \in client.reqs /\ m.op = "login"
  /\ Login(m.username, m.password)
  /\ History
  /\ client' = [client EXCEPT !.reqs = @ \ {m}, !.resps = @ \cup {Answer(m, resp', users')}]
  /\ UNCHANGED pending

\* The server takes up a register request: it answers 400, or the handler
\* is suspended at user.create.
ServerRegisterBegin(m) ==
  /\ m \in client.reqs /\ m.op = "register"
  /\ RegisterBegin(m.username, m.password)
  /\ client' = IF pending' = pending
                 THEN [client EXCEPT !.reqs = @ \ {m}, !.resps = @ \cup {Answer(m, resp', users')}]
                 ELSE [client EXCEPT !.reqs = @ \ {m}, !.tickets = @ @@ (NewTicket :> m)]

\* A suspended register handler goes on and answers.
ServerRegisterCreate(k) ==
  /\ k \in DOMAIN client.tickets
  /\ RegisterCreate(k)
  /\ client' = [client EXCEPT !.tickets = Without(@, {k}),
                              !.resps = @ \cup {Answer(client.tickets[k], resp', users')}]

\* The server handles the GET /api/notes of an initial load.
ServerList(m) ==
  /\ m \in client.reqs /\ m.op = "list"
  /\ GetNotes(m.header)
  /\ History
  /\ client' = [client EXCEPT !.reqs = @ \ {m}, !.resps = @ \cup {Answer(m, resp', users')}]
  /\ UNCHANGED pending

\* What auth.register and auth.login throw on an answer that is not ok:
\* new Error(err.error) when the body is JSON; when the handler's promise
\* was rejected there is no such body, and res.json() rejects with the
\* parser's error or, the connection lost, fetch with its own.
ThrownMessages(a) == IF a.json THEN {a.error} ELSE {"SyntaxError", "TypeError"}

\* auth.register / auth.login after the fetch, and handleSubmit after the
\* await: the token of an ok answer is stored and onSuccess shows NotesApp,
\* which starts its initial load; else the error is thrown and shown.
AuthAnswerArrives(a) ==
  /\ a \in client.resps /\ a.op \in {"login", "register"}
  /\ IF a.status = 200
         THEN client' =
              NotesAppMounts([client EXCEPT !.resps = @ \ {a}, !.token = a.token,
                                            !.loggedIn = TRUE,
                                            !.event = [kind |-> "stored", message |-> ""]])
         ELSE \E message \in ThrownMessages(a) :
                client' = [client EXCEPT !.resps = @ \ {a},
                                         !.event = [kind |-> "threw", message |-> message]]
  /\ UNCHANGED <<db, req, resp, hist, pending>>

\* api.list() after the fetch and the .then/.catch of the initial load: 401
\* throws 'UNAUTHORIZED' and the catch calls onLogout.
ListAnswerArrives(a) ==
  /\ a \in client.resps /\ a.op = "list"
  /\ client' =
       IF a.status = 401
         THEN [handleLogout(client) EXCEPT !.resps = @ \ {a},
                                           !.event = [kind |-> "expelled", message |-> "UNAUTHORIZED"]]
         ELSE [client EXCEPT !.resps = @ \ {a}, !.event = [kind |-> "loaded", message |-> ""]]
  /\ UNCHANGED <<db, req, resp, hist, pending>>

\* The user clicks the logout button of NotesApp.
ClickLogout ==
  /\ client.loggedIn
  /\ client' = [handleLogout(client) EXCEPT !.event = [kind |-> "logout", message |-> ""]]
  /\ UNCHANGED <<db, req, resp, hist, pending>>

(***************************************************************************)
(* SpecSession: one browser; the user submits the login form as login or   *)
(* as register, logs out, and the answers arrive in any order.             *)
(***************************************************************************)
NextSession ==
  \/ \E isRegister \in BOOLEAN, username \in {" ", "alice", "carol"},
          password \in {<<" ">>, Pw3, Pw4, Pw4b} :
       handleSubmit(isRegister, username, password)
  \/ \E m \in client.reqs : ServerLogin(m)
  \/ \E m \in client.reqs : ServerRegisterBegin(m)
  \/ \E k \in 1..MaxInFlight : ServerRegisterCreate(k)
  \/ \E m \in client.reqs : ServerList(m)
  \/ \E a \in client.resps : AuthAnswerArrives(a)
  \/ \E a \in client.resps : ListAnswerArrives(a)
  \/ ClickLogout

SpecSession == InitSession /\ [][NextSession]_vars

(***************************************************************************)
(* Properties.                                                             *)
(***************************************************************************)
Answered(op) == req.op = op /\ resp.status = 200
IdsIn(ns) == {v.id : v \in ns}
Locked(i) == i \in DOMAIN notes /\ notes[i].lockPassword # <<>>

\* C4: a soft delete keeps the record and sets deletedAt, and the two lists
\* split a user's notes: GET /api/notes answers exactly the caller's notes
\* whose deletedAt is null, GET /api/notes/trash exactly the caller's notes
\* whose deletedAt is set, so every note of a user is in exactly one of them.
C4_SoftDeletePartition ==
  /\ Answered("DELETE /api/notes/:id") =>
       req.id \in DOMAIN notes /\ notes[req.id].deletedAt # 0
  /\ Answered("GET /api/notes") =>
       IdsIn(resp.notes) = {i \in DOMAIN notes : notes[i].userId = Caller(req) /\ notes[i].deletedAt = 0}
  /\ Answered("GET /api/notes/trash") =>
       IdsIn(resp.notes) = {i \in DOMAIN notes : notes[i].userId = Caller(req) /\ ~(notes[i].deletedAt = 0)}

\* C4 witness: the trash is answered with a deleted note while the caller
\* also has a note that is not deleted.
C4_Witness ==
  /\ Answered("GET /api/notes/trash")
  /\ resp.notes # {}
  /\ \E i \in DOMAIN notes : notes[i].userId = Caller(req) /\ notes[i].deletedAt = 0

\* C6: the newest version of a note is the note's title and content as they
\* were before its latest title/content PATCH, in the table and in the
\* answer of GET /api/notes/:id/versions.
C6_NewestVersionIsStateBeforeEdit ==
  /\ \A i \in DOMAIN hist.before \cap DOMAIN notes :
       LET vs == VersionsOf(versions, i) IN
       /\ vs # <<>>
       /\ vs[Len(vs)].title = hist.before[i].title
       /\ vs[Len(vs)].content = hist.before[i].content
  /\ (Answered("GET /api/notes/:id/versions") /\ req.id \in DOMAIN hist.before) =>
       /\ resp.versions # <<>>
       /\ resp.versions[1].title = hist.before[req.id].title
       /\ resp.versions[1].content = hist.before[req.id].content

\* C6 witness: the versions of a note are answered after two edits of its
\* content, the newest differing from the older one and from the note.
C6_Witness ==
  /\ Answered("GET /api/notes/:id/versions")
  /\ Len(resp.versions) = 2
  /\ resp.versions[1].content # resp.versions[2].content
  /\ resp.versions[1].content # notes[req.id].content

\* C8: a PATCH on a locked note that carries no unlockPassword, or a wrong
\* one, leaves the note and its versions unchanged.
C8_LockedEditNeedsPassword ==
  [][ ( /\ req'.op = "PATCH /api/notes/:id"
        /\ Locked(req'.id)
        /\ ~( /\ Present(req'.body.unlockPassword)
              /\ bcryptCompare(Val(req'.body.unlockPassword), notes[req'.id].lockPassword) ) )
      => (notes' = notes /\ versions' = versions) ]_vars

\* C9: no response carries the content of a locked note, except the answer
\* of unlock.
C9_LockedContentHidden ==
  \A v \in resp.notes :
    (Locked(v.id) /\ notes[v.id].content # "" /\ ~Answered("POST /api/notes/:id/unlock"))
      => v.content # notes[v.id].content

\* C10: no response carries the lock password hash of a note.
C10_NoHashInResponse ==
  \A v \in resp.notes : v.lockPassword = <<>> \/ v.lockPassword = Undefined

\* C5: when the owner soft-deletes a note and then restores it, the note is
\* back in the owner's GET /api/notes with its title, content, pinned flag,
\* folderId, tags, lock and versions as they were before the delete.
C5_DeleteRestoreRoundTrip ==
  (hist.trail # <<>> /\ hist.trail.stage = 2) =>
    LET i == hist.trail.id
        was == hist.trail.row
    IN /\ i \in ListIds(Caller(req))
       /\ notes[i].title = was.title
       /\ notes[i].content = was.content
       /\ notes[i].pinned = was.pinned
       /\ notes[i].folderId = was.folderId
       /\ notes[i].tags = was.tags
       /\ notes[i].lockPassword = was.lockPassword
       /\ VersionsOf(versions, i) = hist.trail.versions

\* C5 witness: a pinned, locked, tagged note in a folder, with a version, has
\* been soft-deleted from the list and restored by its owner.
C5_Witness ==
  /\ hist.trail # <<>> /\ hist.trail.stage = 2
  /\ Answered("POST /api/notes/:id/restore")
  /\ hist.trail.row.deletedAt = 0
  /\ hist.trail.row.title = "T"
  /\ hist.trail.row.pinned
  /\ hist.trail.row.folderId # 0
  /\ hist.trail.row.tags # {}
  /\ hist.trail.row.lockPassword # <<>>
  /\ hist.trail.versions # <<>>

\* A request header that is a Bearer header with a token that verifies.
HeaderVerifies(h) == h # <<>> /\ h[1] = "Bearer" /\ h[2].secret = JWT_SECRET /\ ~h[2].expired

\* C1: a request to any route behind authenticate (every route but register,
\* login and the static /api/files) that has no Authorization header, a
\* header that is not a Bearer header, or a token that does not verify, is
\* answered 401 with a JSON error body and changes no stored row or file.
C1_UnauthorizedIsRefused ==
  [][ (req'.op # "GET /api/files" /\ ~HeaderVerifies(req'.header))
      => ( /\ resp'.status = 401
           /\ resp'.other = "error" /\ resp'.error # ""
           /\ resp'.notes = {} /\ resp'.versions = <<>>
           /\ db' = db ) ]_vars

\* C1 witness: a permanent delete of an existing note, a tag and a folder
\* being there too, is asked with a token signed with another secret and
\* answered 401.
C1_Witness ==
  /\ req.op = "DELETE /api/notes/:id/permanent"
  /\ req.header # <<>> /\ req.header[1] = "Bearer" /\ req.header[2].secret # JWT_SECRET
  /\ req.id \in DOMAIN notes
  /\ DOMAIN folders # {} /\ DOMAIN tags # {} /\ files # {}
  /\ resp.status = 401

\* C7: a note never has more than 50 versions, in the table and in the
\* answer of GET /api/notes/:id/versions.
C7_AtMost50Versions ==
  /\ \A i \in DOMAIN notes : Len(VersionsOf(versions, i)) <= 50
  /\ Len(resp.versions) <= 50

\* C7 witness: a PATCH is answered after more than 50 snapshots of the note
\* were created, and the note has 50 versions.
C7_Witness ==
  /\ Answered("PATCH /api/notes/:id")
  /\ nextVersionId > 52
  /\ Len(VersionsOf(versions, req.id)) = 50


\* A burst: the calls j..k of updateNote, all for one note and one field,
\* each less than DebounceMs after the one before, the call before j (if
\* any) at least DebounceMs earlier, and k followed by DebounceMs of quiet:
\* either the next call came that late, or k is the last call and its
\* timeout is no longer pending.
Burst(j, k) ==
  LET c == client.calls IN
  /\ j = 1 \/ c[j].t - c[j-1].t >= DebounceMs
  /\ \A i \in (j+1)..k : /\ c[i].t - c[i-1].t < DebounceMs
                         /\ c[i].id = c[j].id /\ c[i].field = c[j].field
  /\ IF k = Len(c) THEN \A t \in client.timers : t.handle # k
                   ELSE c[k+1].t - c[k].t >= DebounceMs

SentBy(j, k) == {m \in 1..Len(client.sent) : client.sent[m].call \in j..k}

\* C2: a burst of calls of updateNote for one note and one field, each less
\* than 500 ms after the one before, sends exactly one PATCH, 500 ms after
\* the last call of the burst, with that call's note, field and value.
C2_DebounceCoalesces ==
  \A j \in 1..Len(client.calls) : \A k \in j..Len(client.calls) :
    Burst(j, k) =>
      /\ Cardinality(SentBy(j, k)) = 1
      /\ \A m \in SentBy(j, k) :
           client.sent[m] = [t |-> client.calls[k].t + DebounceMs, call |-> k,
                             id |-> client.calls[k].id, field |-> client.calls[k].field,
                             value |-> client.calls[k].value]

\* Three calls for one field of one note, each 250 ms after the one before, with
\* different values, and the only PATCH sent carries the third value.
C2_Witness ==
  /\ Len(client.calls) = 3
  /\ Burst(1, 3)
  /\ client.calls[2].value # client.calls[3].value
  /\ Len(client.sent) = 1
  /\ client.sent[1].value = client.calls[3].value
  /\ client.sent[1].t = client.calls[3].t + DebounceMs

\* C3: once no timeout is pending and no PATCH is on its way, and all the
\* edits were of one field of one note, the server stores the value of the
\* last edit.
C3_LastEditWins ==
  LET c == client.calls IN
  ( /\ c # <<>>
    /\ client.timers = {} /\ client.inflight = {}
    /\ \A i \in 1..Len(c) : c[i].id = c[1].id /\ c[i].field = c[1].field )
  => LET last == c[Len(c)]
         row == notes[last.id]
     IN (IF last.field = "title" THEN row.title ELSE row.content) = last.value

\* C11: when a lock of a note with password p has succeeded and the caller
\* next asks to unlock that note, the answer to password p is the note with
\* the content it had when it was locked and locked = true, and the answer
\* to any other password is 403 without a note; unlock of a note of the
\* caller that has no lock is answered 400.
C11_LockUnlockRoundTrip ==
  [][ /\ ( /\ Answered("POST /api/notes/:id/lock")
           /\ req'.op = "POST /api/notes/:id/unlock"
           /\ req'.id = req.id /\ req'.header = req.header
           /\ req'.body.password # <<>> )
         => IF req'.body.password = req.body.password
              THEN /\ resp'.status = 200
                   /\ \E v \in resp'.notes :
                        /\ resp'.notes = {v}
                        /\ v.id = req.id
                        /\ v.content = notes[req.id].content
                        /\ v.locked = "true"
              ELSE resp'.status = 403 /\ resp'.notes = {}
      /\ ( /\ req'.op = "POST /api/notes/:id/unlock"
           /\ findFirst(req'.id, Caller(req'))
           /\ ~Locked(req'.id) )
         => resp'.status = 400 /\ resp'.notes = {} ]_vars

\* C11 witness: a note with content has been locked, and the unlock that
\* followed with the same password is answered with that content.
C11_Witness ==
  /\ Answered("POST /api/notes/:id/unlock")
  /\ \E v \in resp.notes : v.content = "C" /\ v.locked = "true"

\* C12: remove-lock on a locked note of the caller with a wrong password is
\* answered 403 and on a note without a lock 400, both leaving every note
\* as it was; with the right password it clears the lock and nothing else,
\* and a GET /api/notes of the caller that follows lists the note with
\* locked = false and its content.
C12_RemoveLockNeedsPassword ==
  [][ /\ ( /\ req'.op = "POST /api/notes/:id/remove-lock"
           /\ findFirst(req'.id, Caller(req'))
           /\ req'.body.password # <<>> )
         => IF ~Locked(req'.id)
              THEN resp'.status = 400 /\ notes' = notes
            ELSE IF notes[req'.id].lockPassword # bcryptHash(req'.body.password)
              THEN resp'.status = 403 /\ notes' = notes
            ELSE /\ resp'.status = 200
                 /\ notes' = [notes EXCEPT ![req'.id].lockPassword = <<>>]
      /\ ( /\ Answered("POST /api/notes/:id/remove-lock")
           /\ req'.op = "GET /api/notes" /\ req'.header = req.header
           /\ notes[req.id].deletedAt = 0 )
         => \E v \in resp'.notes :
              /\ v.id = req.id
              /\ v.locked = Bool(FALSE)
              /\ v.content = notes[req.id].content ]_vars

\* C12 witness: the lock of a note with content has been removed with the
\* right password, and the note is still there with its content.
C12_Witness ==
  /\ Answered("POST /api/notes/:id/remove-lock")
  /\ req.body.password = Pw4b
  /\ notes[req.id].content = "C"
  /\ notes[req.id].lockPassword = <<>>

\* C13: a register request with a missing username or password, a password
\* shorter than 4, or a username that exists when its answer is made, is
\* answered 400 with a JSON error body and creates no user; every other one
\* is answered with a token and creates the user.  With two requests for
\* one new username in progress, one gets the token and the other the 400.
C13_RegisterErrorsAreValues ==
  [][ ( /\ req'.op = "POST /api/register"
        /\ DOMAIN pending' \subseteq DOMAIN pending
        /\ <<req', resp', pending'>> # <<req, resp, pending>> )
      => IF \/ req'.body.username = "" \/ req'.body.password = <<>>
            \/ Len(req'.body.password) < MinPasswordLen
            \/ NameTaken(req'.body.username)
           THEN /\ resp'.status = 400 /\ resp'.other = "error" /\ resp'.error # ""
                /\ users' = users
           ELSE /\ resp' = TokenJson
                /\ Cardinality(DOMAIN users') = Cardinality(DOMAIN users) + 1 ]_vars


\* The routes that look the note up by id and owner before anything else.
NoteRoutes ==
  {"PATCH /api/notes/:id", "POST /api/notes/:id/restore", "DELETE /api/notes/:id/permanent",
   "GET /api/notes/:id/versions", "POST /api/notes/:id/lock", "POST /api/notes/:id/unlock",
   "POST /api/notes/:id/remove-lock", "GET /api/notes/:id/comments",
   "POST /api/notes/:id/comments"}

\* C14: a PATCH, restore, permanent delete, versions, lock, unlock,
\* remove-lock or comments request of a logged-in user for a note id that
\* does not exist or is another user's note is answered 404 with a JSON
\* error body and changes no note, version or comment.
C14_MissingNoteIs404 ==
  [][ ( /\ req'.op \in NoteRoutes
        /\ HeaderVerifies(req'.header)
        /\ ~(req'.id \in DOMAIN notes /\ notes[req'.id].userId = req'.header[2].userId) )
      => ( /\ resp'.status = 404
           /\ resp'.other = "error" /\ resp'.error # ""
           /\ resp'.notes = {} /\ resp'.versions = <<>>
           /\ notes' = notes /\ versions' = versions /\ comments' = comments ) ]_vars

\* C14 witness: a permanent delete of another user's locked note, which has
\* a version and a comment, is answered 404.
C14_Witness ==
  /\ req.op = "DELETE /api/notes/:id/permanent"
  /\ resp.status = 404
  /\ req.id \in DOMAIN notes
  /\ notes[req.id].userId # Caller(req)
  /\ Locked(req.id)
  /\ versions # <<>>
  /\ DOMAIN comments # {}

\* C15: an answered PATCH creates a version if and only if it changes the
\* note's title or content.
C15_VersionIffChange ==
  [][ (req'.op = "PATCH /api/notes/:id" /\ resp'.status = 200 /\ <<req', resp'>> # <<req, resp>>)
      => ( (nextVersionId' # nextVersionId)
           <=> ( \/ notes'[req'.id].title # notes[req'.id].title
                 \/ notes'[req'.id].content # notes[req'.id].content ) ) ]_vars

\* C16: a PATCH changes nothing but the title, content, pinned flag and
\* folderId of the note it addresses: that note keeps its id, userId,
\* deletedAt, lockPassword and tags, every other note stays as it is, and no
\* note appears or disappears, whatever keys the body carries.
C16_PatchWhitelist ==
  [][ req'.op = "PATCH /api/notes/:id"
      => /\ DOMAIN notes' = DOMAIN notes
         /\ \A i \in DOMAIN notes :
              IF i = req'.id
                THEN /\ notes'[i].userId = notes[i].userId
                     /\ notes'[i].deletedAt = notes[i].deletedAt
                     /\ notes'[i].lockPassword = notes[i].lockPassword
                     /\ notes'[i].tags = notes[i].tags
                ELSE notes'[i] = notes[i] ]_vars

\* C16 witness: a PATCH whose body also names another userId, a null
\* deletedAt, a null lockPassword and no tags has changed the title of a
\* locked, tagged note in the trash, and there is another note.
C16_Witness ==
  /\ Answered("PATCH /api/notes/:id")
  /\ "userId" \in DOMAIN req.body
  /\ req.body.userId # notes[req.id].userId
  /\ notes[req.id].title = "T"
  /\ Locked(req.id)
  /\ notes[req.id].deletedAt # 0
  /\ notes[req.id].tags # {}
  /\ Cardinality(DOMAIN notes) = 2

\* C17: when no PATCH is in progress, the note has min(50, k) versions, k
\* being the number of snapshots ever created, and they are the k - 50 + 1
\* .. k most recently created ones.
C17_PruneOnlyOldestExcess ==
  pending = <<>> =>
    \A i \in DOMAIN notes :
      LET vs == VersionsOf(versions, i)
          k == nextVersionId - 1
          kept == IF k < MaxVersions THEN k ELSE MaxVersions
      IN /\ Len(vs) = kept
         /\ {vs[j].id : j \in 1..Len(vs)} = (k - kept + 1)..k

\* A note id that was given to a note which is no longer stored.
Gone(i) == i < nextNoteId /\ i \notin DOMAIN notes

\* C18: a permanent delete that succeeds removes the note; from then on no
\* answer of GET /api/notes or GET /api/notes/trash holds it, and every
\* restore, versions, PATCH, lock or permanent-delete request of a logged-in
\* user for its id is answered 404 and leaves it removed.
C18_PermanentDeleteIsFinal ==
  [][ /\ (req'.op = "DELETE /api/notes/:id/permanent" /\ resp'.status = 200)
           => req'.id \notin DOMAIN notes'
      /\ (req'.op \in {"GET /api/notes", "GET /api/notes/trash"})
           => \A v \in resp'.notes : ~Gone(v.id)'
      /\ ( /\ req'.op \in {"POST /api/notes/:id/restore", "GET /api/notes/:id/versions",
                           "PATCH /api/notes/:id", "POST /api/notes/:id/lock",
                           "DELETE /api/notes/:id/permanent"}
           /\ HeaderVerifies(req'.header)
           /\ Gone(req'.id) )
           => (resp'.status = 404 /\ req'.id \notin DOMAIN notes') ]_vars

\* C18 witness: the user who deleted a note for good asks to restore it
\* and is answered 404.
C18_Witness ==
  /\ req.op = "POST /api/notes/:id/restore"
  /\ resp.status = 404
  /\ Gone(req.id)
  /\ DOMAIN notes = {}

\* C19: DELETE /api/folders/:id deletes no note and changes nothing of a
\* note but its folderId, and nothing of a note that is in another folder or
\* in none; when it is answered, every note that was in the folder has
\* folderId null, the folder is gone and no note refers to it.
C19_DeleteFolderKeepsNotes ==
  [][ (req'.op = "DELETE /api/folders/:id" /\ HeaderVerifies(req'.header))
      => /\ DOMAIN notes' = DOMAIN notes
         /\ \A i \in DOMAIN notes :
              /\ [notes'[i] EXCEPT !.folderId = 0] = [notes[i] EXCEPT !.folderId = 0]
              /\ notes[i].folderId # req'.id => notes'[i] = notes[i]
         /\ resp'.status = 200 =>
              /\ req'.id \notin DOMAIN folders'
              /\ \A i \in DOMAIN notes' : notes'[i].folderId # req'.id
              /\ \A i \in DOMAIN notes : notes[i].folderId = req'.id => notes'[i].folderId = 0 ]_vars

\* C19 witness: a folder has been deleted; a pinned, tagged note in the
\* trash that was in it is in no folder now, and another note is still in
\* the other folder.
C19_Witness ==
  /\ Answered("DELETE /api/folders/:id")
  /\ req.id \notin DOMAIN folders
  /\ \E i, j \in DOMAIN notes :
       /\ notes[i].folderId = 0 /\ notes[i].pinned /\ notes[i].tags # {} /\ notes[i].deletedAt # 0
       /\ notes[j].folderId \in DOMAIN folders

\* C20: an answered PUT /api/notes/:id/tags leaves the note with exactly
\* the tags of tagIds, the same request again changes nothing, and when
\* toggleTag has been called twice, both times for the same tag, and every
\* request and answer has arrived, the note has its original tags on the
\* server and in the browser.
C20_SetTagsReplaces ==
  [][ /\ (req'.op = "PUT /api/notes/:id/tags" /\ resp'.status = 200)
           => notes'[req'.id].tags = req'.body.tagIds
      /\ ( /\ Answered("PUT /api/notes/:id/tags")
           /\ req' = req /\ resp'.status = 200 )
           => notes' = notes
      /\ ( /\ Len(client'.toggles) = 2
           /\ client'.toggles[1] = client'.toggles[2]
           /\ client'.tagReqs = {} /\ client'.tagResps = {} )
           => /\ notes'[1].tags = InitialTags
              /\ client'.local[1].tags = InitialTags ]_vars

\* C21: when updateNote has been called for one note and then, less than
\* 500 ms later, for another note, and that was all, then once no timeout
\* is pending and no PATCH is on its way (nothing more will reach the
\* server) the server's title and content of every note equal those of the
\* browser's copy.
C21_SwitchingKeepsEdits ==
  LET c == client.calls IN
  ( /\ Len(c) = 2
    /\ c[1].id # c[2].id
    /\ c[2].t - c[1].t < DebounceMs
    /\ client.timers = {} /\ client.inflight = {} )
  => \A i \in DOMAIN client.local :
       /\ notes[i].title = client.local[i].title
       /\ notes[i].content = client.local[i].content

\* The rows of table f (id -> row with a userId) that are not u's.
OthersRows(f, u) == {<<i, f[i]>> : i \in {j \in DOMAIN f : f[j].userId # u}}

\* The versions of the notes that are not u's.
OthersVersions(u) ==
  SelectSeq(versions, LAMBDA v : v.noteId \in DOMAIN notes /\ notes[v.noteId].userId # u)

\* C22: a request with the token of user u leaves every note, folder, tag
\* and comment of another user, and every version of another user's note,
\* as it was: none is changed and none is deleted, whatever id the request
\* names.
C22_OthersDataUntouched ==
  [][ \A u \in UserIds :
        (authenticate(req'.header).ok /\ Caller(req') = u) =>
          /\ OthersRows(notes, u) \subseteq OthersRows(notes', u)
          /\ OthersRows(folders, u) \subseteq OthersRows(folders', u)
          /\ OthersRows(tags, u) \subseteq OthersRows(tags', u)
          /\ OthersRows(comments, u) \subseteq OthersRows(comments', u)
          /\ \A k \in 1..Len(OthersVersions(u)) :
               \E m \in 1..Len(versions') : versions'[m] = OthersVersions(u)[k] ]_vars

\* The step was an update of the editor by typing, Backspace or a
\* paragraph break: the document changed and no command ran.
EditorUpdated == client'.doc # client.doc /\ client'.ran = 0

\* After an update the menu is open exactly when the text before the
\* cursor matches, and its filter is the text after the slash.
MenuFollowsText ==
  EditorUpdated =>
    LET m == slashMatch(textBefore(client'.doc, client'.cursor)) IN
    /\ client'.slashOpen <=> m # <<>>
    /\ m # <<>> => client'.slashFilter = m[2]

\* While the menu is open slashIndex is an index into the filtered list (0
\* when the list is empty).
IndexInRange ==
  client'.slashOpen =>
    LET n == Len(filteredCommands(client'.slashFilter)) IN
    /\ client'.slashIndex >= 0
    /\ client'.slashIndex < (IF n = 0 THEN 1 ELSE n)

\* ArrowDown and ArrowUp on the open menu move slashIndex by one, around
\* the ends of the list, and leave the menu open.
ArrowsWrap ==
  LET n == Len(filteredCommands(client.slashFilter))
      i == client.slashIndex
  IN
  (client.slashOpen /\ n > 0 /\ client'.event \in {"ArrowDown", "ArrowUp"}) =>
    /\ client'.slashOpen /\ client'.slashFilter = client.slashFilter
    /\ client'.slashIndex = IF client'.event = "ArrowDown"
                              THEN (IF i = n - 1 THEN 0 ELSE i + 1)
                              ELSE (IF i = 0 THEN n - 1 ELSE i - 1)

\* Escape on the open menu closes it.
EscapeCloses == (client.slashOpen /\ client'.event = "Escape") => ~client'.slashOpen

\* Enter on the open menu with a command selected runs that command, takes
\* the slash and the filter out of the document and closes the menu.
EnterRuns ==
  LET cmds == filteredCommands(client.slashFilter) IN
  (client.slashOpen /\ client'.event = "Enter" /\ cmds # <<>>) =>
    /\ client.slashIndex \in 0..(Len(cmds) - 1)
    /\ client'.ran = cmds[client.slashIndex + 1]
    /\ Len(client'.doc) = Len(client.doc) - (1 + Len(client.slashFilter))
                            + Len(SLASH_COMMANDS[client'.ran].inserts)
    /\ ~client'.slashOpen

\* C23: after every update of the editor the slash menu is open exactly
\* when the up-to-20 characters before the cursor match /\/([^\s/]*)$/, and
\* its filter is the text after the slash; while it is open slashIndex is a
\* valid index into the filtered commands, ArrowDown and ArrowUp wrap
\* around, also when the filter matches no command; Escape closes the
\* menu; Enter runs the selected command, removes the slash text and
\* closes the menu.
C23_SlashMenuFollowsRegex ==
  [][ /\ MenuFollowsText
      /\ IndexInRange
      /\ ArrowsWrap
      /\ EscapeCloses
      /\ EnterRuns ]_vars

\* The step was the arrival of answer a in the browser.
Arrived(a) == a \in client.resps /\ client'.resps = client.resps \ {a}

====
